---- MODULE Spec2Model ----
(***************************************************************************)
(* View-state and push-synchronisation engine of ui_module.engine:          *)
(* InMemoryViewStore, PushChannel, ComponentRegistry.create_component and   *)
(* ViewManager.  Python objects that are shared by reference (UIView,       *)
(* UIComponent) live in heaps (vobj, cobj) and are named by their index.    *)
(* A coroutine runs atomically from one await that can suspend to the next; *)
(* the only such awaits are the subscriber and broadcast callbacks in       *)
(* PushChannel.push.                                                        *)
(***************************************************************************)
EXTENDS Integers, Sequences, FiniteSets, TLC

VARIABLES
    views,      \* InMemoryViewStore._views : view id -> index in vobj, 0 = no key
    vobj,       \* heap of UIView objects
    saveCount,  \* per UIView object: number of store.save calls on it (history variable)
    cobj,       \* heap of UIComponent objects
    history,    \* InMemoryViewStore._history
    recorded,   \* every update ever passed to record_update, in order (history variable)
    registry,   \* ComponentRegistry._components : type -> definition
    config,     \* os.environ["AUTHORING_ENABLED"] and UISettings.authoring_enabled
    clients,    \* PushChannel._clients : the dict's entry array, in insertion order
    queues,     \* PushChannel._queues : client id -> queued updates
    broadcast,  \* PushChannel._broadcast_callbacks
    task,       \* per coroutine: the frame of the manager operation it runs
    call        \* the synchronous call made by the last step, with its return value

vars == <<views, vobj, saveCount, cobj, history, recorded, registry, config,
          clients, queues, broadcast, task, call>>

storeVars == <<views, vobj, saveCount, cobj, history, recorded>>
channelVars == <<clients, queues, broadcast>>

----------------------------------------------------------------------------
(* Bounds of the model *)

\* UIView and UIComponent objects ever constructed
MaxObjects == 3
\* updates ever recorded by the ViewManager operations
MaxHistory == 2
\* keys ever inserted into _clients plus broadcast callbacks registered
MaxRegistered == 2
\* updates waiting in one client's queue when push is called directly
MaxQueued == 2
\* record_update calls of the history specification
MaxRecords == 1004
\* largest limit get_history is asked for
MaxLimit == 4

(* Input domains *)

ViewIds == {"v1", "v2"}
ClientIds == {"A", "B"}
CompIds == {"m1", "m2"}
Tasks == {"t1", "t2"}
TaskOrder == [t \in Tasks |-> IF t = "t1" THEN 1 ELSE 2]
BroadcastIds == {"g1"}
WILDCARD == "*"
Topics == ViewIds \cup {WILDCARD}

----------------------------------------------------------------------------
(* Python values *)

\* dict: a function whose domain is the set of keys
EmptyDict == [k \in {} |-> 0]

\* Optional[dict]: None or a dict
None == [some |-> FALSE, val |-> EmptyDict]

Some(d) == [some |-> TRUE, val |-> d]

\* truthiness of Optional[dict]: None and {} are both falsy
Truthy(o) == o.some /\ DOMAIN o.val # {}

\* dict.update mistaken for assignment: the supplied map replaces the old one
DictUpdate_replace(d, e) == e

\* dict.update(e): keys of e overwritten or added, other keys kept
DictUpdate(d, e) ==
    [k \in (DOMAIN d) \cup (DOMAIN e) |-> IF k \in DOMAIN e THEN e[k] ELSE d[k]]

\* Optional[int] position
NoPosition == [some |-> FALSE, val |-> 0]

At(p) == [some |-> TRUE, val |-> p]

\* an insert that takes the position for the index of the element to insert after
ListInsert_after(s, i, x) ==
    LET n == Len(s)
        j == IF i + 1 > n THEN n ELSE i + 1
    IN SubSeq(s, 1, j) \o <<x>> \o SubSeq(s, j + 1, n)

\* components[i] = x written for components.insert(i, x): the component at the
\* index is replaced
ListInsert_overwrites(s, i, x) ==
    IF s = <<>> THEN <<x>>
    ELSE LET j == IF i < 0 THEN 0 ELSE IF i >= Len(s) THEN Len(s) - 1 ELSE i
         IN [s EXCEPT ![j + 1] = x]

\* list.insert(i, x): negative i counts from the end, out-of-range i is clamped
ListInsert(s, i, x) ==
    LET n == Len(s)
        j0 == IF i < 0 THEN i + n ELSE i
        j == IF j0 < 0 THEN 0 ELSE IF j0 > n THEN n ELSE j0
    IN SubSeq(s, 1, j) \o <<x>> \o SubSeq(s, j + 1, n)

RECURSIVE SeqFilterOut_inverted(_, _)
\* the comparison of the filter inverted: keeps the components with the id
SeqFilterOut_inverted(s, cid) ==
    IF s = <<>> THEN <<>>
    ELSE LET rest == SeqFilterOut_inverted(Tail(s), cid)
         IN IF cobj[Head(s)].id = cid THEN <<Head(s)>> \o rest ELSE rest

RECURSIVE SeqFilterOut(_, _)
\* [c for c in components if c.id != component_id]
SeqFilterOut(s, cid) ==
    IF s = <<>> THEN <<>>
    ELSE LET rest == SeqFilterOut(Tail(s), cid)
         IN IF cobj[Head(s)].id # cid THEN <<Head(s)>> \o rest ELSE rest

\* first component of the list with the given id, 0 if there is none
FindComponent(s, cid) ==
    IF \E i \in 1..Len(s) : cobj[s[i]].id = cid
    THEN s[CHOOSE i \in 1..Len(s) :
               /\ cobj[s[i]].id = cid
               /\ \A j \in 1..(i - 1) : cobj[s[j]].id # cid]
    ELSE 0

----------------------------------------------------------------------------
(* models.py *)

\* UIView(id=..., name=...) : components defaults to [], version defaults to 1
UIView(view_id) == [id |-> view_id, components |-> <<>>, version |-> 1]

\* UIComponent(id, component_type, props, styles)
UIComponent(cid, ctype, props, styles) ==
    [id |-> cid, component_type |-> ctype, props |-> props, styles |-> styles]

EmptyPayload ==
    [component |-> 0, position |-> NoPosition, component_id |-> "",
     props |-> None, styles |-> None, components |-> <<>>, version |-> 0]

\* ViewUpdate(view_id, action, payload, version)
ViewUpdate(view_id, action, payload, version) ==
    [view_id |-> view_id, action |-> action, payload |-> payload, version |-> version]

NoUpdate == ViewUpdate("", "", EmptyPayload, 0)

\* UIView.to_dict(): a fresh list of the components' dicts (each of which holds the
\* component's own props and styles dicts, hence the reference) and the version
ViewToDict(vo) == [EmptyPayload EXCEPT !.components = vo.components, !.version = vo.version]

----------------------------------------------------------------------------
(* registry.py *)

\* the members of the ComponentType enum used here
ComponentTypes == {"metric", "progress", "button"}

\* the types ComponentRegistry._register_builtins defines: there is no built-in
\* definition for button (nor for image, list and custom)
BuiltinTypes == {"metric", "progress"}

\* an enum lookup that accepts any string
ParseComponentType_accepts_any(s) == [ok |-> TRUE, value |-> s]

\* ComponentType(s): the member whose value is s, ValueError when there is none
ParseComponentType(s) == [ok |-> s \in ComponentTypes, value |-> s]

ComponentDefinition(ty, name, default_props, default_styles) ==
    [component_type |-> ty, name |-> name,
     default_props |-> default_props, default_styles |-> default_styles]

\* the built-in definitions of the types used here
BuiltinDefs ==
    [ty \in BuiltinTypes |->
        IF ty = "progress"
        THEN ComponentDefinition("progress", "Progress", [variant |-> "linear"], EmptyDict)
        ELSE ComponentDefinition("metric", "Metric", EmptyDict, EmptyDict)]

\* register that keeps the definition a type already has
register_keeps_first(reg, definition) ==
    [ty \in (DOMAIN reg) \cup {definition.component_type} |->
        IF ty \in DOMAIN reg THEN reg[ty] ELSE definition]

\* ComponentRegistry.register: self._components[definition.component_type] = definition
register(reg, definition) ==
    [ty \in (DOMAIN reg) \cup {definition.component_type} |->
        IF ty = definition.component_type THEN definition ELSE reg[ty]]

\* Optional[ComponentDefinition]
NoDefinition == [some |-> FALSE, val |-> ComponentDefinition("", "", EmptyDict, EmptyDict)]

\* ComponentRegistry.get: self._components.get(component_type)
RegistryGet(reg, ctype) ==
    IF ctype \in DOMAIN reg THEN [some |-> TRUE, val |-> reg[ctype]] ELSE NoDefinition

\* create_component in which the defaults overwrite what the caller supplied
RegistryCreate_defaults_win(reg, cid, ctype, props, styles) ==
    LET defn == RegistryGet(reg, ctype)
        p == IF Truthy(props) THEN props.val ELSE EmptyDict
        st == IF Truthy(styles) THEN styles.val ELSE EmptyDict
    IN UIComponent(cid, ctype,
                   IF defn.some THEN DictUpdate(p, defn.val.default_props) ELSE p,
                   IF defn.some THEN DictUpdate(st, defn.val.default_styles) ELSE st)

\* ComponentRegistry.create_component: a copy of the defaults of the type's
\* definition, or {} when the type has none, updated with the caller's dicts
RegistryCreate(reg, cid, ctype, props, styles) ==
    LET defn == RegistryGet(reg, ctype)
        merged_props == IF defn.some THEN defn.val.default_props ELSE EmptyDict
        merged_styles == IF defn.some THEN defn.val.default_styles ELSE EmptyDict
    IN UIComponent(cid, ctype,
                   IF Truthy(props) THEN DictUpdate(merged_props, props.val) ELSE merged_props,
                   IF Truthy(styles) THEN DictUpdate(merged_styles, styles.val) ELSE merged_styles)

----------------------------------------------------------------------------
(* store/view_store.py *)

HISTORY_CAP == 1000

\* save that stores the view without touching its version
save_no_bump(vs, objs, r) == [views |-> [vs EXCEPT ![objs[r].id] = r], vobj |-> objs]

\* InMemoryViewStore.save on the object at index r: version += 1, _views[view.id] = view
save(vs, objs, r) ==
    [views |-> [vs EXCEPT ![objs[r].id] = r],
     vobj |-> [objs EXCEPT ![r].version = @ + 1]]

\* record_update that puts the update at the front of the history
record_update_at_front(h, u) ==
    LET h1 == <<u>> \o h
    IN IF Len(h1) > HISTORY_CAP THEN SubSeq(h1, 1, HISTORY_CAP) ELSE h1

\* record_update with the slice taken from the wrong end: keeps the first entries
record_update_keep_first(h, u) ==
    LET h1 == Append(h, u)
    IN IF Len(h1) > HISTORY_CAP THEN SubSeq(h1, 1, HISTORY_CAP) ELSE h1

\* InMemoryViewStore.record_update: append, then keep the last HISTORY_CAP entries
record_update(h, u) ==
    LET h1 == Append(h, u)
    IN IF Len(h1) > HISTORY_CAP
       THEN SubSeq(h1, Len(h1) - HISTORY_CAP + 1, Len(h1))
       ELSE h1

\* Optional[str] view_id argument
NoViewId == [some |-> FALSE, val |-> ""]

ViewId(v) == [some |-> TRUE, val |-> v]

\* s[start:] of a Python list: a negative start counts from the end, and the
\* result is clamped to the list
PySliceFrom(s, start) ==
    LET n == Len(s)
        k0 == IF start < 0 THEN start + n ELSE start
        k == IF k0 < 0 THEN 0 ELSE IF k0 > n THEN n ELSE k0
    IN SubSeq(s, k + 1, n)

\* InMemoryViewStore.get_history(view_id, limit): filtered when view_id is truthy,
\* then history[-limit:]
get_history(h, view_id, limit) ==
    LET filtered == IF view_id.some /\ view_id.val # ""
                    THEN SelectSeq(h, LAMBDA u : u.view_id = view_id.val)
                    ELSE h
    IN PySliceFrom(filtered, 0 - limit)

----------------------------------------------------------------------------
(* push_channel.py : the _clients dict *)

\* a deleted entry of the dict's entry array
Tombstone == [client_id |-> "", live |-> FALSE, subscribed_views |-> {}, callback |-> FALSE]

\* ClientConnection(client_id, callback=callback): subscribed_views defaults to set()
ClientConnection(c, cb) ==
    [client_id |-> c, live |-> TRUE, subscribed_views |-> {}, callback |-> cb]

LiveIdx(es) == {i \in 1..Len(es) : es[i].live}

\* position of key c in the entry array, 0 if c is not a key
IndexOf(es, c) ==
    IF \E i \in LiveIdx(es) : es[i].client_id = c
    THEN CHOOSE i \in LiveIdx(es) : es[i].client_id = c
    ELSE 0

Connected(es) == {es[i].client_id : i \in LiveIdx(es)}

\* the test of push without the wildcard
ShouldDeliver_no_wildcard(e, update) == update.view_id \in e.subscribed_views

\* the test of push: the client is subscribed to this view, or to "*" for all
ShouldDeliver(e, update) ==
    update.view_id \in e.subscribed_views \/ WILDCARD \in e.subscribed_views

\* PushChannel.get_client: None (the empty set) or the connection of the client
get_client(es, c) == {es[i] : i \in {j \in LiveIdx(es) : es[j].client_id = c}}

\* PushChannel.list_clients: list(self._clients.values()), in insertion order
list_clients(es) == SelectSeq(es, LAMBDA e : e.live)

\* get_subscribers without the wildcard
get_subscribers_no_wildcard(es, view_id) ==
    {es[i].client_id : i \in {j \in LiveIdx(es) : view_id \in es[j].subscribed_views}}

\* PushChannel.get_subscribers, as the set of client ids
get_subscribers(es, view_id) ==
    {es[i].client_id : i \in {j \in LiveIdx(es) :
        view_id \in es[j].subscribed_views \/ WILDCARD \in es[j].subscribed_views}}

----------------------------------------------------------------------------
(* push_channel.py : PushChannel.push, as the frame of the coroutine running it *)

\* the last step made no synchronous call
NoCall == [op |-> "none", a |-> "", b |-> "", ret |-> "none"]

\* a synchronous call op(a, b) that returned ret ("none" for an object)
Called(op, a, b, ret) == [op |-> op, a |-> a, b |-> b, ret |-> ret]

Bool(x) == IF x THEN "True" ELSE "False"

\* Optional[float] timeout
NoTimeout == [some |-> FALSE, val |-> 0]

Timeout(x) == [some |-> TRUE, val |-> x]

\* frame of a coroutine that runs no operation
IdleFrame ==
    [pc |-> "idle",          \* idle, in_callback, in_broadcast, done, raised
     op |-> "none",          \* the ViewManager operation
     view_id |-> "",         \* its view_id argument
     component_id |-> "",    \* its component_id argument (update, remove)
     found |-> FALSE,        \* the operation did not return None / False / 0 early
     update |-> NoUpdate,    \* the ViewUpdate built and pushed
     di_pos |-> 0,           \* dict iterator: index of the entry last returned
     di_used |-> 0,          \* dict iterator: size of the dict when the loop started
     di_len |-> 0,           \* dict iterator: entries still to return
     cur |-> "",             \* client_id of the loop variable
     recipients |-> 0,       \* push's counter
     bpos |-> 0,             \* list iterator over _broadcast_callbacks
     error |-> "",           \* exception that left push
     attempted |-> <<>>,     \* clients to which delivery was attempted, in order
     failed |-> {},          \* clients whose delivery raised
     stable |-> TRUE,        \* no connect/disconnect/(un)subscribe while suspended
     invoked |-> <<>>,       \* broadcast callbacks invoked, in order
     bstable |-> TRUE,       \* no broadcast callback added or removed while suspended
     timeout |-> NoTimeout,  \* get_update: its timeout argument
     timer |-> FALSE,        \* get_update: asyncio.wait_for bounds the wait
     orphan |-> FALSE]       \* get_update: the queue waited on left _queues

\* push awaits a callback
InPush == {"in_callback", "in_broadcast"}

\* the awaits at which a coroutine is suspended: a callback, or Queue.get
Suspended == InPush \cup {"in_get"}

\* ma_used: number of keys of _clients
Used(es) == Cardinality(LiveIdx(es))

\* an iteration from the newest entry to the oldest: the last live entry to start
\* with (pos = 0), then the live entry before position pos
NextLive_newest_first(es, pos) ==
    LET left == IF pos = 0 THEN LiveIdx(es) ELSE {i \in LiveIdx(es) : i < pos}
    IN IF left = {} THEN 0
       ELSE CHOOSE i \in left : \A j \in left : j <= i

\* index of the first live entry after position pos, 0 if there is none
NextLive(es, pos) ==
    IF \E i \in LiveIdx(es) : i > pos
    THEN CHOOSE i \in LiveIdx(es) : i > pos /\ \A j \in LiveIdx(es) : j > pos => i <= j
    ELSE 0

\* a recipient raising ends the loop over the clients: the exception is logged
\* outside the loop
OnDeliveryError_ends_loop(f) == [f EXCEPT !.failed = @ \cup {f.cur}, !.di_pos = Len(clients)]

\* a failed delivery counted as a delivery
OnDeliveryError_counted(f) == [f EXCEPT !.failed = @ \cup {f.cur}, !.recipients = @ + 1]

\* what a recipient raising does to the frame: `except Exception` logs it, nothing else
OnDeliveryError(f) == [f EXCEPT !.failed = @ \cup {f.cur}]

\* after a successful delivery: recipients += 1
OnDelivered(f) == [f EXCEPT !.recipients = @ + 1]

\* push is left, by `return recipients` or by an exception: its locals are gone
Returned(f, pc, error) ==
    [f EXCEPT !.pc = pc, !.error = error, !.cur = "",
              !.di_pos = 0, !.di_used = 0, !.di_len = 0, !.bpos = 0]

\* `for callback in self._broadcast_callbacks: await callback(update)` from index
\* bpos on, up to the next await that suspends, then `return recipients`
RunBroadcast(f, q) ==
    IF f.bpos < Len(broadcast)
    THEN [f |-> [f EXCEPT !.pc = "in_broadcast", !.bpos = @ + 1,
                          !.invoked = Append(@, broadcast[f.bpos + 1])],
          q |-> q]
    ELSE [f |-> Returned(f, "done", ""), q |-> q]

RECURSIVE RunClients(_, _)
\* `for client_id, connection in self._clients.items()` from the iterator's position
\* on, up to the next callback (an await that may suspend).  The iterator is
\* CPython's dictiter_iternextitem: it raises RuntimeError when the dict's size
\* differs from the size at loop start, skips deleted entries, and raises when it
\* finds more entries than it had to return.
RunClients(f, q) ==
    IF f.di_used # Used(clients)
    THEN [f |-> Returned(f, "raised", "RuntimeError: dictionary changed size during iteration"),
          q |-> q]
    ELSE LET i == NextLive(clients, f.di_pos)
         IN IF i = 0 THEN RunBroadcast(f, q)
            ELSE IF f.di_len = 0
            THEN [f |-> Returned(f, "raised", "RuntimeError: dictionary keys changed during iteration"),
                  q |-> q]
            ELSE LET e == clients[i]
                     f1 == [f EXCEPT !.di_pos = i, !.di_len = @ - 1, !.cur = e.client_id]
                     f2 == [f1 EXCEPT !.attempted = Append(@, e.client_id)]
                 IN IF ~ShouldDeliver(e, f.update) THEN RunClients(f1, q)
                    ELSE IF e.callback
                    THEN [f |-> [f2 EXCEPT !.pc = "in_callback"], q |-> q]
                    ELSE RunClients(OnDelivered(f2),
                                    [q EXCEPT ![e.client_id] = Append(@, f.update)])

\* PushChannel.push(update) from its first statement to its first suspension
push(f, update) ==
    RunClients([f EXCEPT !.update = update, !.recipients = 0,
                         !.di_pos = 0, !.di_used = Used(clients), !.di_len = Used(clients)],
               queues)

----------------------------------------------------------------------------
(* Inputs the operations are called with *)

CreateTypes == {"metric"}
CreateProps == {Some([label |-> "Users", value |-> 100])}
CreateStyles == {None}
\* (props, styles) of update_component
\* timeout of get_update: absent, 0, positive
Timeouts == {NoTimeout, Timeout(0), Timeout(1)}
UpdateArgs == {<<Some([value |-> 150]), None>>,
               <<Some([value |-> 100]), Some([color |-> "red"])>>,
               <<None, None>>}
Positions == {NoPosition, At(0)}
\* position of add_component for a list of up to two components: absent, every
\* index from the front to the end, and one past the end
InsertPositions == {NoPosition, At(0), At(1), At(2), At(3)}

----------------------------------------------------------------------------
(* The process environment and the settings the server reads *)

\* values of the environment variable AUTHORING_ENABLED; "" is the variable unset,
\* as os.environ.get("AUTHORING_ENABLED", "") reads it
EnvValues == {"", "true", "TRUE", "false"}

\* str.lower on the values above
Lower(s) == IF s = "TRUE" THEN "true" ELSE s

\* the variable unset and UISettings.authoring_enabled at its default
DefaultConfig == [env |-> "", authoring_enabled |-> FALSE]

\* the environments the server is started in: every value of the variable with the
\* default settings, and the variable unset with authoring enabled in the settings
Configs ==
    {[env |-> e, authoring_enabled |-> FALSE] : e \in EnvValues}
        \cup {[env |-> "", authoring_enabled |-> TRUE]}

\* the definitions register is called with: two for a type that has a built-in
\* definition and two for a type that has none
Definitions ==
    {ComponentDefinition(ty, "Custom", EmptyDict, [color |-> "blue"]) :
        ty \in {"progress", "button"}}
    \cup {ComponentDefinition(ty, "Labelled", [variant |-> "bar", label |-> "x"], EmptyDict) :
        ty \in {"progress", "button"}}

\* component_type of create_component: a type with a built-in definition and one
\* without
RegistryTypes == {"progress", "button"}

\* props and styles of create_component that share keys with the defaults above
RegistryProps == {None, Some([variant |-> "circular", value |-> 50])}
RegistryStyles == {None, Some([color |-> "red"])}

----------------------------------------------------------------------------
(* Initial state: ViewManager() with its own store, channel and registry *)

Constructed ==
    /\ views = [v \in ViewIds |-> 0]
    /\ vobj = <<>>
    /\ saveCount = <<>>
    /\ cobj = <<>>
    /\ history = <<>>
    /\ recorded = <<>>
    /\ registry = BuiltinDefs
    /\ clients = <<>>
    /\ queues = [c \in ClientIds |-> <<>>]
    /\ broadcast = <<>>
    /\ task = [t \in Tasks |-> IdleFrame]
    /\ call = NoCall

\* the server started without AUTHORING_ENABLED and with the default settings
Init == Constructed /\ config = DefaultConfig

\* the server started in any environment and with any settings
InitServer == Constructed /\ config \in Configs

\* the manager after create_view("v1"), create_view("v2") and three calls of
\* create_component: two stored views without components, three components that
\* are in no view yet, nothing recorded and no client
InitInsert ==
    LET one == save([v \in ViewIds |-> 0], <<UIView("v1")>>, 1)
        two == save(one.views, Append(one.vobj, UIView("v2")), 2)
    IN /\ views = two.views
       /\ vobj = two.vobj
       /\ saveCount = <<1, 1>>
       /\ cobj = <<RegistryCreate(BuiltinDefs, "m1", "metric", None, None),
                   RegistryCreate(BuiltinDefs, "m2", "metric", None, None),
                   RegistryCreate(BuiltinDefs, "m3", "metric", None, None)>>
       /\ history = <<>>
       /\ recorded = <<>>
       /\ registry = BuiltinDefs
       /\ config = DefaultConfig
       /\ clients = <<>>
       /\ queues = [c \in ClientIds |-> <<>>]
       /\ broadcast = <<>>
       /\ task = [t \in Tasks |-> IdleFrame]
       /\ call = Called("create_component", "m3", "metric", "none")

\* the channel after connect("A"), connect("B") and subscribe of both to "v1",
\* "v2" and "*", each client with or without a callback
InitSubscribed ==
    /\ views = [v \in ViewIds |-> 0]
    /\ vobj = <<>>
    /\ saveCount = <<>>
    /\ cobj = <<>>
    /\ history = <<>>
    /\ recorded = <<>>
    /\ registry = BuiltinDefs
    /\ config = DefaultConfig
    /\ \E a \in BOOLEAN, b \in BOOLEAN :
          clients = <<[ClientConnection("A", a) EXCEPT !.subscribed_views = Topics],
                      [ClientConnection("B", b) EXCEPT !.subscribed_views = Topics]>>
    /\ queues = [c \in ClientIds |-> <<>>]
    /\ broadcast = <<>>
    /\ task = [t \in Tasks |-> IdleFrame]
    /\ call = Called("subscribe", "B", WILDCARD, "True")

\* a coroutine can start an operation unless it is suspended inside one; the
\* coroutines are interchangeable, so a new operation takes the first free one
Free(t) == /\ task[t].pc \notin Suspended
           /\ \A u \in Tasks : (u # t /\ task[u].pc \notin Suspended) => TaskOrder[t] < TaskOrder[u]

\* the frame of an operation that has returned is gone once anything else runs
Drop(tk) == [u \in Tasks |-> IF tk[u].pc \in Suspended THEN tk[u] ELSE IdleFrame]

\* the frames once coroutine t runs frame f
Started(t, f) == [Drop(task) EXCEPT ![t] = f]

StartFrame(op, v, cid) ==
    [IdleFrame EXCEPT !.op = op, !.view_id = v, !.component_id = cid]

\* a missing view or component surfacing as an exception
NotFound_raises(t, op, v, cid) ==
    /\ task' = Started(t, [StartFrame(op, v, cid) EXCEPT !.pc = "raised", !.error = "KeyError"])
    /\ call' = NoCall
    /\ UNCHANGED <<storeVars, registry, config, channelVars>>

\* the operation returned None / False / 0 before touching anything
NotFound(t, op, v, cid) ==
    /\ task' = Started(t, [StartFrame(op, v, cid) EXCEPT !.pc = "done"])
    /\ call' = NoCall
    /\ UNCHANGED <<storeVars, registry, config, channelVars>>

\* the ViewManager may record one more update: MaxHistory of them for one stored
\* view, one more for every further stored view, counted from the empty history
\* or from the history one entry short of the cap
HistoryRoom ==
    LET base == IF Len(recorded) >= HISTORY_CAP - 1 THEN HISTORY_CAP - 1 ELSE 0
    IN Len(recorded) - base < MaxHistory + Cardinality({v \in ViewIds : views[v] # 0}) - 1

\* store.save(view); store.record_update(update); await push_channel.push(update)
\* for the view object r with its components already changed in objs
SaveRecordPush(t, op, cid, objs, r, payload) ==
    LET sv == save(views, objs, r)
        update == ViewUpdate(objs[r].id, op, payload, sv.vobj[r].version)
        m == push([StartFrame(op, objs[r].id, cid) EXCEPT !.found = TRUE], update)
    IN /\ HistoryRoom
       /\ views' = sv.views
       /\ vobj' = sv.vobj
       /\ saveCount' = [saveCount EXCEPT ![r] = @ + 1]
       /\ history' = record_update(history, update)
       /\ recorded' = Append(recorded, update)
       /\ task' = Started(t, m.f)
       /\ queues' = m.q
       /\ call' = NoCall

----------------------------------------------------------------------------
(* view_manager.py *)

\* ViewManager.create_view(name, view_id)
CreateView(v) ==
    /\ Len(vobj) + Len(cobj) < MaxObjects
    /\ LET r == Len(vobj) + 1
           sv == save(views, Append(vobj, UIView(v)), r)
       IN /\ views' = sv.views
          /\ vobj' = sv.vobj
          /\ saveCount' = Append(saveCount, 1)
    /\ call' = Called("create_view", v, "", "none")
    /\ task' = Drop(task)
    /\ UNCHANGED <<cobj, history, recorded, registry, config, channelVars>>

\* delete_view that also drops the subscriptions to the deleted id
DeleteView_unsubscribes(v) ==
    /\ views' = [views EXCEPT ![v] = 0]
    /\ clients' = [i \in 1..Len(clients) |->
                      [clients[i] EXCEPT !.subscribed_views = @ \ {v}]]
    /\ call' = Called("delete_view", v, "", Bool(views[v] # 0))
    /\ task' = Drop(task)
    /\ UNCHANGED <<vobj, saveCount, cobj, history, recorded, registry, config, queues, broadcast>>

\* delete_view that records an update for the deleted view
DeleteView_records(v) ==
    /\ views' = [views EXCEPT ![v] = 0]
    /\ history' = record_update(history, ViewUpdate(v, "full", EmptyPayload, 0))
    /\ recorded' = Append(recorded, ViewUpdate(v, "full", EmptyPayload, 0))
    /\ call' = Called("delete_view", v, "", Bool(views[v] # 0))
    /\ task' = Drop(task)
    /\ UNCHANGED <<vobj, saveCount, cobj, registry, config, channelVars>>

\* ViewManager.delete_view(view_id) -> InMemoryViewStore.delete
DeleteView(v) ==
    /\ views' = [views EXCEPT ![v] = 0]
    /\ call' = Called("delete_view", v, "", Bool(views[v] # 0))
    /\ task' = Drop(task)
    /\ UNCHANGED <<vobj, saveCount, cobj, history, recorded, registry, config, channelVars>>

\* ViewManager.create_component(component_type, props, styles, component_id)
CreateComponent(cid, ctype, props, styles) ==
    /\ Len(vobj) + Len(cobj) < MaxObjects
    /\ IF ParseComponentType(ctype).ok
       THEN /\ cobj' = Append(cobj, RegistryCreate(registry, cid,
                                                   ParseComponentType(ctype).value,
                                                   props, styles))
            /\ call' = Called("create_component", cid, ctype, "none")
       ELSE /\ cobj' = cobj
            /\ call' = Called("create_component", cid, ctype, "ValueError")
    /\ task' = Drop(task)
    /\ UNCHANGED <<views, vobj, saveCount, history, recorded, registry, config, channelVars>>

\* ComponentRegistry.register(definition), called on manager.registry
Register(definition) ==
    /\ registry' = register(registry, definition)
    /\ call' = Called("register", definition.component_type, definition.name, "none")
    /\ task' = Drop(task)
    /\ UNCHANGED <<storeVars, config, channelVars>>

\* ViewManager.add_component(view_id, component, position)
AddComponent(t, v, c, position) ==
    /\ Free(t)
    /\ IF views[v] = 0 THEN NotFound(t, "add_component", v, "")
       ELSE LET r == views[v]
                comps == IF position.some
                         THEN ListInsert(vobj[r].components, position.val, c)
                         ELSE Append(vobj[r].components, c)
            IN /\ SaveRecordPush(t, "add_component", "",
                                 [vobj EXCEPT ![r].components = comps], r,
                                 [EmptyPayload EXCEPT !.component = c, !.position = position])
               /\ UNCHANGED <<cobj, registry, config, clients, broadcast>>

\* update_component on components whose props and styles are the dicts of their
\* type's definition: the update lands in the defaults and in every component of
\* the type
UpdateComponent_through_defaults(t, v, cid, props, styles) ==
    /\ Free(t)
    /\ IF views[v] = 0 THEN NotFound(t, "update_component", v, cid)
       ELSE LET r == views[v]
                c == FindComponent(vobj[r].components, cid)
                p(d) == IF Truthy(props) THEN DictUpdate(d, props.val) ELSE d
                s(d) == IF Truthy(styles) THEN DictUpdate(d, styles.val) ELSE d
            IN IF c = 0 THEN NotFound(t, "update_component", v, cid)
               ELSE /\ cobj' = [i \in 1..Len(cobj) |->
                                  IF cobj[i].component_type = cobj[c].component_type
                                  THEN [cobj[i] EXCEPT !.props = p(@), !.styles = s(@)]
                                  ELSE cobj[i]]
                    /\ registry' = [ty \in DOMAIN registry |->
                                      IF ty = cobj[c].component_type
                                      THEN [registry[ty] EXCEPT !.default_props = p(@),
                                                                !.default_styles = s(@)]
                                      ELSE registry[ty]]
                    /\ SaveRecordPush(t, "update_component", cid, vobj, r,
                                      [EmptyPayload EXCEPT !.component_id = cid,
                                                           !.props = props,
                                                           !.styles = styles])
                    /\ UNCHANGED <<config, clients, broadcast>>

\* ViewManager.update_component(view_id, component_id, props, styles)
UpdateComponent(t, v, cid, props, styles) ==
    /\ Free(t)
    /\ IF views[v] = 0 THEN NotFound(t, "update_component", v, cid)
       ELSE LET r == views[v]
                c == FindComponent(vobj[r].components, cid)
            IN IF c = 0 THEN NotFound(t, "update_component", v, cid)
               ELSE /\ cobj' = [cobj EXCEPT
                                  ![c].props = IF Truthy(props)
                                               THEN DictUpdate(@, props.val) ELSE @,
                                  ![c].styles = IF Truthy(styles)
                                                THEN DictUpdate(@, styles.val) ELSE @]
                    /\ SaveRecordPush(t, "update_component", cid, vobj, r,
                                      [EmptyPayload EXCEPT !.component_id = cid,
                                                           !.props = props,
                                                           !.styles = styles])
                    /\ UNCHANGED <<registry, config, clients, broadcast>>

\* ViewManager.remove_component(view_id, component_id)
RemoveComponent(t, v, cid) ==
    /\ Free(t)
    /\ IF views[v] = 0 THEN NotFound(t, "remove_component", v, cid)
       ELSE LET r == views[v]
                kept == SeqFilterOut(vobj[r].components, cid)
            IN IF Len(kept) = Len(vobj[r].components)
               THEN NotFound(t, "remove_component", v, cid)
               ELSE /\ SaveRecordPush(t, "remove_component", cid,
                                      [vobj EXCEPT ![r].components = kept], r,
                                      [EmptyPayload EXCEPT !.component_id = cid])
                    /\ UNCHANGED <<cobj, registry, config, clients, broadcast>>

\* push_view that saves the view as the mutations do
PushView_saves(t, v) ==
    /\ Free(t)
    /\ IF views[v] = 0 THEN NotFound(t, "full", v, "")
       ELSE /\ SaveRecordPush(t, "full", "", vobj, views[v], ViewToDict(vobj[views[v]]))
            /\ UNCHANGED <<cobj, registry, config, clients, broadcast>>

\* ViewManager.push_view(view_id): record and push a "full" update, no save
PushView(t, v) ==
    /\ Free(t)
    /\ IF views[v] = 0 THEN NotFound(t, "full", v, "")
       ELSE LET r == views[v]
                update == ViewUpdate(v, "full", ViewToDict(vobj[r]), vobj[r].version)
                m == push([StartFrame("full", v, "") EXCEPT !.found = TRUE], update)
            IN /\ HistoryRoom
               /\ history' = record_update(history, update)
               /\ recorded' = Append(recorded, update)
               /\ task' = Started(t, m.f)
               /\ queues' = m.q
               /\ call' = NoCall
               /\ UNCHANGED <<views, vobj, saveCount, cobj, registry, config, clients, broadcast>>

----------------------------------------------------------------------------
(* push_channel.py : the synchronous operations *)

\* record in the frames of the suspended pushes that _clients changed under them
Disturb(tk, es) ==
    [t \in Tasks |-> IF tk[t].pc \in InPush /\ es # clients
                     THEN [tk[t] EXCEPT !.stable = FALSE] ELSE Drop(tk)[t]]

\* the coroutines waiting in get_update on the queue of client c wait on a queue
\* that _queues no longer holds
Orphan(tk, c) ==
    [t \in Tasks |-> IF tk[t].pc = "in_get" /\ tk[t].cur = c
                     THEN [tk[t] EXCEPT !.orphan = TRUE] ELSE tk[t]]

\* connect that keeps the subscriptions of an existing connection
connect_keeps_subscriptions(es, c, cb) ==
    IF IndexOf(es, c) # 0
    THEN [es EXCEPT ![IndexOf(es, c)].callback = cb]
    ELSE Append(es, ClientConnection(c, cb))

\* PushChannel.connect(client_id, callback=cb): a new connection and a new queue
\* under the key client_id; an existing key keeps its place in the dict
connect(es, c, cb) ==
    IF IndexOf(es, c) # 0
    THEN [es EXCEPT ![IndexOf(es, c)] = ClientConnection(c, cb)]
    ELSE Append(es, ClientConnection(c, cb))

Connect(c, cb) ==
    /\ IndexOf(clients, c) = 0 => Len(clients) + Len(broadcast) < MaxRegistered
    /\ clients' = connect(clients, c, cb)
    /\ queues' = [queues EXCEPT ![c] = <<>>]
    /\ call' = Called("connect", c, "", "none")
    /\ task' = Orphan(Disturb(task, clients'), c)
    /\ UNCHANGED <<storeVars, registry, config, broadcast>>

\* disconnect that returns True whether or not the client was connected
Disconnect_returns_true(c) ==
    /\ IF IndexOf(clients, c) # 0
       THEN /\ clients' = [clients EXCEPT ![IndexOf(clients, c)] = Tombstone]
            /\ queues' = [queues EXCEPT ![c] = <<>>]
       ELSE UNCHANGED <<clients, queues>>
    /\ call' = Called("disconnect", c, "", "True")
    /\ task' = IF IndexOf(clients, c) # 0
               THEN Orphan(Disturb(task, clients'), c) ELSE Disturb(task, clients')
    /\ UNCHANGED <<storeVars, registry, config, broadcast>>

\* PushChannel.disconnect(client_id)
Disconnect(c) ==
    /\ IF IndexOf(clients, c) # 0
       THEN /\ clients' = [clients EXCEPT ![IndexOf(clients, c)] = Tombstone]
            /\ queues' = [queues EXCEPT ![c] = <<>>]
       ELSE UNCHANGED <<clients, queues>>
    /\ call' = Called("disconnect", c, "", Bool(IndexOf(clients, c) # 0))
    /\ task' = IF IndexOf(clients, c) # 0
               THEN Orphan(Disturb(task, clients'), c) ELSE Disturb(task, clients')
    /\ UNCHANGED <<storeVars, registry, config, broadcast>>

\* subscribe that adds the view id to the set of every connection
Subscribe_every_client(c, topic) ==
    /\ IF IndexOf(clients, c) # 0
       THEN /\ clients' = [i \in 1..Len(clients) |->
                              IF clients[i].live
                              THEN [clients[i] EXCEPT !.subscribed_views = @ \cup {topic}]
                              ELSE clients[i]]
       ELSE UNCHANGED clients
    /\ call' = Called("subscribe", c, topic, Bool(IndexOf(clients, c) # 0))
    /\ task' = Disturb(task, clients')
    /\ UNCHANGED <<storeVars, registry, config, queues, broadcast>>

\* PushChannel.subscribe(client_id, view_id)
Subscribe(c, topic) ==
    /\ IF IndexOf(clients, c) # 0
       THEN /\ clients' = [clients EXCEPT ![IndexOf(clients, c)].subscribed_views = @ \cup {topic}]
       ELSE UNCHANGED clients
    /\ call' = Called("subscribe", c, topic, Bool(IndexOf(clients, c) # 0))
    /\ task' = Disturb(task, clients')
    /\ UNCHANGED <<storeVars, registry, config, queues, broadcast>>

\* unsubscribe that removes the wildcard along with the view id
Unsubscribe_drops_wildcard(c, topic) ==
    /\ IF IndexOf(clients, c) # 0
       THEN /\ clients' = [clients EXCEPT
                              ![IndexOf(clients, c)].subscribed_views = @ \ {topic, WILDCARD}]
       ELSE UNCHANGED clients
    /\ call' = Called("unsubscribe", c, topic, Bool(IndexOf(clients, c) # 0))
    /\ task' = Disturb(task, clients')
    /\ UNCHANGED <<storeVars, registry, config, queues, broadcast>>

\* PushChannel.unsubscribe(client_id, view_id)
Unsubscribe(c, topic) ==
    /\ IF IndexOf(clients, c) # 0
       THEN /\ clients' = [clients EXCEPT ![IndexOf(clients, c)].subscribed_views = @ \ {topic}]
       ELSE UNCHANGED clients
    /\ call' = Called("unsubscribe", c, topic, Bool(IndexOf(clients, c) # 0))
    /\ task' = Disturb(task, clients')
    /\ UNCHANGED <<storeVars, registry, config, queues, broadcast>>

\* record in the frames of the suspended pushes that _broadcast_callbacks changed
DisturbBroadcast(tk) ==
    [t \in Tasks |-> IF tk[t].pc \in InPush
                     THEN [tk[t] EXCEPT !.bstable = FALSE] ELSE Drop(tk)[t]]

\* PushChannel.add_broadcast_callback
AddBroadcastCallback(g) ==
    /\ Len(clients) + Len(broadcast) < MaxRegistered
    /\ broadcast' = Append(broadcast, g)
    /\ call' = Called("add_broadcast_callback", g, "", "none")
    /\ task' = DisturbBroadcast(task)
    /\ UNCHANGED <<storeVars, registry, config, clients, queues>>

\* PushChannel.remove_broadcast_callback: list.remove of the first occurrence
RemoveBroadcastCallback(g) ==
    /\ \E i \in 1..Len(broadcast) : broadcast[i] = g
    /\ LET i == CHOOSE i \in 1..Len(broadcast) :
                    broadcast[i] = g /\ \A j \in 1..(i - 1) : broadcast[j] # g
       IN broadcast' = SubSeq(broadcast, 1, i - 1) \o SubSeq(broadcast, i + 1, Len(broadcast))
    /\ call' = Called("remove_broadcast_callback", g, "", "none")
    /\ task' = DisturbBroadcast(task)
    /\ UNCHANGED <<storeVars, registry, config, clients, queues>>

----------------------------------------------------------------------------
(* push_channel.py : PushChannel.push resumes *)

\* the coroutine is not woken when the callback it awaits ends
Resume_lost(t, m) ==
    /\ task' = task
    /\ queues' = queues
    /\ call' = call
    /\ UNCHANGED <<storeVars, registry, config, clients, broadcast>>

\* the coroutine continues after the callback it awaited: push runs up to its
\* next suspension or to its end
Resume(t, m) ==
    /\ task' = Started(t, m.f)
    /\ queues' = m.q
    /\ call' = NoCall
    /\ UNCHANGED <<storeVars, registry, config, clients, broadcast>>

\* PushChannel.push(update) called on the channel itself, the way its tests call it:
\* ViewUpdate(view_id=v, action="full", payload={}, version=1)
Push(t, v) ==
    /\ Free(t)
    /\ \A c \in ClientIds : Len(queues[c]) < MaxQueued
    /\ LET m == push([StartFrame("push", v, "") EXCEPT !.found = TRUE],
                     ViewUpdate(v, "full", EmptyPayload, 1))
       IN /\ task' = Started(t, m.f)
          /\ queues' = m.q
    /\ call' = NoCall
    /\ UNCHANGED <<storeVars, registry, config, clients, broadcast>>

\* Queue.get_nowait taking the newest item
QueueGet_lifo(q) == [item |-> q[Len(q)], rest |-> SubSeq(q, 1, Len(q) - 1)]

\* asyncio.Queue.get on a queue that is not empty: the oldest item leaves the queue
QueueGet(q) == [item |-> Head(q), rest |-> Tail(q)]

\* get_update returns the update it took from the queue of f.cur
GotUpdate(t, f) ==
    LET g == QueueGet(queues[f.cur])
    IN /\ task' = Started(t, [f EXCEPT !.pc = "done", !.found = TRUE,
                                        !.update = g.item, !.timer = FALSE])
       /\ queues' = [queues EXCEPT ![f.cur] = g.rest]

\* PushChannel.get_update(client_id, timeout): None for a client without a queue;
\* the next queued update; or a wait, bounded by asyncio.wait_for only `if timeout`
GetUpdate(t, c, timeout) ==
    /\ Free(t)
    /\ LET f == [StartFrame("get_update", "", "") EXCEPT !.cur = c, !.timeout = timeout]
       IN IF IndexOf(clients, c) = 0
          THEN /\ task' = Started(t, [f EXCEPT !.pc = "done"])
               /\ UNCHANGED queues
          ELSE IF queues[c] # <<>>
          THEN GotUpdate(t, f)
          ELSE /\ task' = Started(t, [f EXCEPT !.pc = "in_get",
                                               !.timer = (timeout.some /\ timeout.val # 0)])
               /\ UNCHANGED queues
    /\ call' = NoCall
    /\ UNCHANGED <<storeVars, registry, config, clients, broadcast>>

\* an update was put on the queue a get_update waits on: Queue.get returns it
GetWakes(t) ==
    /\ task[t].pc = "in_get" /\ ~task[t].orphan
    /\ queues[task[t].cur] # <<>>
    /\ GotUpdate(t, task[t])
    /\ call' = NoCall
    /\ UNCHANGED <<storeVars, registry, config, clients, broadcast>>

\* the timeout of asyncio.wait_for elapses: TimeoutError, get_update returns None
GetTimesOut(t) ==
    /\ task[t].pc = "in_get" /\ task[t].timer
    /\ task' = Started(t, [task[t] EXCEPT !.pc = "done", !.timer = FALSE])
    /\ call' = NoCall
    /\ UNCHANGED <<storeVars, registry, config, channelVars>>

\* InMemoryViewStore.record_update(update) called on the store itself; the updates
\* are numbered in their version field, and the view id is free around the cap
RecordUpdate(v) ==
    /\ Len(recorded) < MaxRecords
    /\ v = "v1" \/ Len(recorded) >= HISTORY_CAP - 2
    /\ LET update == ViewUpdate(v, "full", EmptyPayload, Len(recorded) + 1)
       IN /\ history' = record_update(history, update)
          /\ recorded' = Append(recorded, update)
    /\ call' = Called("record_update", v, "", "none")
    /\ task' = Drop(task)
    /\ UNCHANGED <<views, vobj, saveCount, cobj, registry, config, channelVars>>

\* the subscriber's callback returns: last_activity, recipients += 1, next client
CallbackReturns(t) ==
    /\ task[t].pc = "in_callback"
    /\ Resume(t, RunClients(OnDelivered(task[t]), queues))

\* the subscriber's callback raises: caught and logged, next client
CallbackRaises(t) ==
    /\ task[t].pc = "in_callback"
    /\ Resume(t, RunClients(OnDeliveryError(task[t]), queues))

\* a broadcast callback returns or raises (caught and logged): next callback
BroadcastCallbackEnds(t) ==
    /\ task[t].pc = "in_broadcast"
    /\ Resume(t, RunBroadcast(task[t], queues))

----------------------------------------------------------------------------
(* engine/envelope.py *)

MAX_ATTRIBUTES == 32
MAX_ATTRIBUTE_KEY_LENGTH == 64
MAX_ATTRIBUTE_VALUE_LENGTH == 256
ALLOWED_ATTRIBUTE_TYPES == {"str", "int", "float", "bool"}

\* one item of the attributes dict: the length of its key, the type of its value
\* and, for a str value, the value's length
Attribute(key_len, type, value_len) ==
    [key_len |-> key_len, type |-> type, value_len |-> value_len]

\* the envelope argument of a tool: None, or a dict with its request_id ("" when
\* the key is missing), its timestamp ("" missing, "iso" an ISO 8601 string,
\* anything else a string datetime.fromisoformat rejects) and its attributes
NoEnvelope == [some |-> FALSE, request_id |-> "", timestamp |-> "", attributes |-> <<>>]

Envelope(request_id, timestamp, attributes) ==
    [some |-> TRUE, request_id |-> request_id, timestamp |-> timestamp,
     attributes |-> attributes]

\* validation that accepts every attributes dict
ValidateAttributes_accepts_all(attributes) == ""

\* ContextEnvelope._validate_attributes: "" when it returns, else the ValueError
ValidateAttributes(attributes) ==
    LET bad(a) == \/ a.key_len > MAX_ATTRIBUTE_KEY_LENGTH
                  \/ a.type \notin ALLOWED_ATTRIBUTE_TYPES
                  \/ a.type = "str" /\ a.value_len > MAX_ATTRIBUTE_VALUE_LENGTH
        firstBad == CHOOSE i \in 1..Len(attributes) :
                        bad(attributes[i]) /\ \A j \in 1..(i - 1) : ~bad(attributes[j])
    IN IF Len(attributes) > MAX_ATTRIBUTES THEN "ValueError: Too many attributes"
       ELSE IF \A i \in 1..Len(attributes) : ~bad(attributes[i]) THEN ""
       ELSE IF attributes[firstBad].key_len > MAX_ATTRIBUTE_KEY_LENGTH
       THEN "ValueError: Attribute key too long"
       ELSE IF attributes[firstBad].type \notin ALLOWED_ATTRIBUTE_TYPES
       THEN "ValueError: Invalid attribute type"
       ELSE "ValueError: Attribute value too long"

\* ContextEnvelope.from_dict(data): the exception it raises ("" when it returns)
\* and the request_id of the envelope it returns
from_dict(data) ==
    IF ~data.some THEN [error |-> "", request_id |-> "uuid4"]
    ELSE IF data.timestamp \notin {"", "iso"}
    THEN [error |-> "ValueError: Invalid isoformat string", request_id |-> ""]
    ELSE [error |-> ValidateAttributes(data.attributes),
          request_id |-> IF data.request_id # "" THEN data.request_id ELSE "uuid4"]

\* Inputs of the tools

\* the envelope argument: absent, well formed, and one for each way
\* ContextEnvelope.from_dict raises
Envelopes ==
    {NoEnvelope,
     Envelope("req-1", "iso", <<Attribute(6, "str", 4)>>),
     Envelope("req-1", "", <<Attribute(6, "str", MAX_ATTRIBUTE_VALUE_LENGTH + 1)>>),
     Envelope("", "", <<Attribute(MAX_ATTRIBUTE_KEY_LENGTH + 1, "int", 0)>>),
     Envelope("", "", <<Attribute(4, "list", 0)>>),
     Envelope("req-1", "yesterday", <<>>),
     Envelope("", "", [i \in 1..(MAX_ATTRIBUTES + 1) |-> Attribute(2, "int", 0)])}

\* the envelopes the authoring tools are called with
GateEnvelopes == {NoEnvelope, Envelope("", "", <<Attribute(4, "list", 0)>>)}

\* component_type of ui_add_component: a member of the enum and a string that is
\* none
ToolTypes == {"metric", "gauge"}

\* subscribe_to of ui_connect_client
SubscribeTo == {<<>>, <<"*">>}

\* metrics of ui_create_dashboard
Metrics == {<<>>, <<[label |-> "Users", value |-> 100]>>}

----------------------------------------------------------------------------
(* server.py : the MCP tools *)

\* server._is_authoring_enabled
IsAuthoringEnabled(cfg) == Lower(cfg.env) = "true" \/ cfg.authoring_enabled

AuthoringDisabled == "error: Authoring tools are disabled"

\* a tool up to its first use of the view manager: "" when it goes on, else the
\* exception _parse_envelope lets through or the error result of the gate
ToolEntry(envelope, gated) ==
    IF from_dict(envelope).error # "" THEN from_dict(envelope).error
    ELSE IF gated /\ ~IsAuthoringEnabled(config) THEN AuthoringDisabled
    ELSE ""

\* the tool ends with the outcome ret before it has called the view manager
Returns(tool, a, b, ret) ==
    /\ call' = Called(tool, a, b, ret)
    /\ task' = Drop(task)
    /\ UNCHANGED <<storeVars, registry, config, channelVars>>

\* ui_create_view(name, view_id, envelope)
UiCreateView(v, envelope) ==
    IF ToolEntry(envelope, TRUE) # ""
    THEN Returns("ui_create_view", v, "", ToolEntry(envelope, TRUE))
    ELSE CreateView(v)

\* ui_delete_view(view_id, envelope)
UiDeleteView(v, envelope) ==
    IF ToolEntry(envelope, TRUE) # ""
    THEN Returns("ui_delete_view", v, "", ToolEntry(envelope, TRUE))
    ELSE DeleteView(v)

\* ui_add_component(view_id, component_type, props, styles, component_id, position,
\* envelope): create_component, ValueError turned into an error result, then
\* add_component of the new component
UiAddComponent(t, v, ctype, props, styles, cid, position, envelope) ==
    /\ Free(t)
    /\ IF ToolEntry(envelope, TRUE) # ""
       THEN Returns("ui_add_component", v, ctype, ToolEntry(envelope, TRUE))
       ELSE IF ~ParseComponentType(ctype).ok
       THEN Returns("ui_add_component", v, ctype, "error: Invalid component type")
       ELSE IF views[v] = 0 THEN NotFound(t, "add_component", v, "")
       ELSE LET r == views[v]
                c == Len(cobj) + 1
                comps == IF position.some
                         THEN ListInsert(vobj[r].components, position.val, c)
                         ELSE Append(vobj[r].components, c)
            IN /\ Len(vobj) + Len(cobj) < MaxObjects
               /\ cobj' = Append(cobj, RegistryCreate(registry, cid,
                                                      ParseComponentType(ctype).value,
                                                      props, styles))
               /\ SaveRecordPush(t, "add_component", "",
                                 [vobj EXCEPT ![r].components = comps], r,
                                 [EmptyPayload EXCEPT !.component = c, !.position = position])
               /\ UNCHANGED <<registry, config, clients, broadcast>>

\* ui_update_component(view_id, component_id, props, styles, envelope)
UiUpdateComponent(t, v, cid, props, styles, envelope) ==
    IF ToolEntry(envelope, TRUE) # ""
    THEN Free(t) /\ Returns("ui_update_component", v, cid, ToolEntry(envelope, TRUE))
    ELSE UpdateComponent(t, v, cid, props, styles)

\* ui_remove_component(view_id, component_id, envelope)
UiRemoveComponent(t, v, cid, envelope) ==
    IF ToolEntry(envelope, TRUE) # ""
    THEN Free(t) /\ Returns("ui_remove_component", v, cid, ToolEntry(envelope, TRUE))
    ELSE RemoveComponent(t, v, cid)

\* ui_push_view(view_id, envelope)
UiPushView(t, v, envelope) ==
    IF ToolEntry(envelope, TRUE) # ""
    THEN Free(t) /\ Returns("ui_push_view", v, "", ToolEntry(envelope, TRUE))
    ELSE PushView(t, v)

\* ui_create_dashboard(name, metrics, envelope) with no charts and no tables:
\* create_view under a generated id v, then for every metric create_component
\* and add_component; metrics is empty or holds one props dict
UiCreateDashboard(t, v, metrics, envelope) ==
    /\ Free(t)
    /\ IF ToolEntry(envelope, TRUE) # ""
       THEN Returns("ui_create_dashboard", v, "", ToolEntry(envelope, TRUE))
       ELSE LET r == Len(vobj) + 1
                created == save(views, Append(vobj, UIView(v)), r)
            IN /\ views[v] = 0
               /\ Len(vobj) + Len(cobj) + Len(metrics) < MaxObjects
               /\ IF metrics = <<>>
                  THEN /\ views' = created.views
                       /\ vobj' = created.vobj
                       /\ saveCount' = Append(saveCount, 1)
                       /\ call' = Called("ui_create_dashboard", v, "", "created")
                       /\ task' = Drop(task)
                       /\ UNCHANGED <<cobj, history, recorded, registry, config, channelVars>>
                  ELSE LET c == Len(cobj) + 1
                           added == save(created.views,
                                         [created.vobj EXCEPT ![r].components = <<c>>], r)
                           update == ViewUpdate(v, "add_component",
                                                [EmptyPayload EXCEPT !.component = c],
                                                added.vobj[r].version)
                           m == push([StartFrame("add_component", v, "")
                                          EXCEPT !.found = TRUE], update)
                       IN /\ HistoryRoom
                          /\ cobj' = Append(cobj, RegistryCreate(registry, "m1", "metric",
                                                                 Some(metrics[1]), None))
                          /\ views' = added.views
                          /\ vobj' = added.vobj
                          /\ saveCount' = Append(saveCount, 2)
                          /\ history' = record_update(history, update)
                          /\ recorded' = Append(recorded, update)
                          /\ task' = Started(t, m.f)
                          /\ queues' = m.q
                          /\ call' = NoCall
                          /\ UNCHANGED <<registry, config, clients, broadcast>>

\* subscribe called for every id of the list ids
SubscribeAll(es, c, ids) ==
    [es EXCEPT ![IndexOf(es, c)].subscribed_views = @ \cup {ids[k] : k \in 1..Len(ids)}]

\* ui_connect_client(client_id, subscribe_to, envelope): connect without a
\* callback, then subscribe to each id of subscribe_to
UiConnectClient(c, subscribe_to, envelope) ==
    IF ToolEntry(envelope, FALSE) # ""
    THEN Returns("ui_connect_client", c, "", ToolEntry(envelope, FALSE))
    ELSE /\ IndexOf(clients, c) = 0 => Len(clients) + Len(broadcast) < MaxRegistered
         /\ clients' = SubscribeAll(connect(clients, c, FALSE), c, subscribe_to)
         /\ queues' = [queues EXCEPT ![c] = <<>>]
         /\ call' = Called("ui_connect_client", c, "", "connected")
         /\ task' = Orphan(Disturb(task, clients'), c)
         /\ UNCHANGED <<storeVars, registry, config, broadcast>>

\* ui_disconnect_client(client_id, envelope)
UiDisconnectClient(c, envelope) ==
    IF ToolEntry(envelope, FALSE) # ""
    THEN Returns("ui_disconnect_client", c, "", ToolEntry(envelope, FALSE))
    ELSE Disconnect(c)

\* ui_subscribe(client_id, view_id, envelope)
UiSubscribe(c, topic, envelope) ==
    IF ToolEntry(envelope, FALSE) # ""
    THEN Returns("ui_subscribe", c, topic, ToolEntry(envelope, FALSE))
    ELSE Subscribe(c, topic)

\* ui_get_view_history(view_id, limit, envelope): reads the history
UiGetViewHistory(v, envelope) ==
    IF ToolEntry(envelope, FALSE) # ""
    THEN Returns("ui_get_view_history", v, "", ToolEntry(envelope, FALSE))
    ELSE Returns("ui_get_view_history", v, "", "updates")

----------------------------------------------------------------------------
(* The engine: every operation, called by any coroutine in any order *)

\* create_view and delete_view on the view ids VS
ViewOps(VS) ==
    \/ \E v \in VS : CreateView(v)
    \/ \E v \in VS : DeleteView(v)

\* the component operations, run by the coroutines TS on the view ids VS
ComponentOps(TS, VS) ==
    \/ \E cid \in CompIds, ty \in CreateTypes, p \in CreateProps, st \in CreateStyles :
            CreateComponent(cid, ty, p, st)
    \/ \E t \in TS, v \in VS, c \in 1..Len(cobj), pos \in Positions :
            AddComponent(t, v, c, pos)
    \/ \E t \in TS, v \in VS, cid \in CompIds, a \in UpdateArgs :
            UpdateComponent(t, v, cid, a[1], a[2])
    \/ \E t \in TS, v \in VS, cid \in CompIds : RemoveComponent(t, v, cid)

\* push_view, run by the coroutines TS on the view ids VS
PushOps(TS, VS) == \E t \in TS, v \in VS : PushView(t, v)

\* the PushChannel operations on the client ids CS and the subscription keys KS
ChannelOps(CS, KS) ==
    \/ \E c \in CS, cb \in BOOLEAN : Connect(c, cb)
    \/ \E c \in CS : Disconnect(c)
    \/ \E c \in CS, topic \in KS : Subscribe(c, topic)
    \/ \E c \in CS, topic \in KS : Unsubscribe(c, topic)

\* registration of the broadcast callbacks
BroadcastOps ==
    \/ \E g \in BroadcastIds : AddBroadcastCallback(g)
    \/ \E g \in BroadcastIds : RemoveBroadcastCallback(g)

\* the subscriber callbacks awaited by the suspended pushes end
CallbackEnds(TS) ==
    \/ \E t \in TS : CallbackReturns(t)
    \/ \E t \in TS : CallbackRaises(t)

\* the broadcast callbacks awaited by the suspended pushes end
BroadcastEnds(TS) == \E t \in TS : BroadcastCallbackEnds(t)

\* push called directly, by the coroutines TS for the view ids VS
DirectPush(TS, VS) == \E t \in TS, v \in VS : Push(t, v)

\* get_update, run by the coroutines TS for the client ids CS
GetOps(TS, CS) ==
    \/ \E t \in TS, c \in CS, timeout \in Timeouts : GetUpdate(t, c, timeout)
    \/ \E t \in TS : GetWakes(t)
    \/ \E t \in TS : GetTimesOut(t)

Next ==
    \/ ViewOps(ViewIds) \/ ComponentOps(Tasks, ViewIds) \/ PushOps(Tasks, ViewIds)
    \/ DirectPush(Tasks, ViewIds)
    \/ ChannelOps(ClientIds, Topics) \/ BroadcastOps
    \/ CallbackEnds(Tasks) \/ BroadcastEnds(Tasks)
    \/ GetOps(Tasks, ClientIds)

Spec == Init /\ [][Next]_vars

----------------------------------------------------------------------------
(* Bounded parts of the engine, each small enough to be explored exhaustively *)

\* the store: one coroutine, every view operation (v2 is never created, so every
\* operation on it meets an absent view), one client that sees every update
NextStore ==
    \/ ViewOps({"v1"}) \/ ComponentOps({"t1"}, ViewIds) \/ PushOps({"t1"}, ViewIds)
    \/ ChannelOps({"A"}, {WILDCARD}) \/ CallbackEnds({"t1"})

SpecStore == Init /\ [][NextStore]_vars

\* the channel: push called directly, two clients, every subscription
NextChannel ==
    \/ DirectPush({"t1"}, ViewIds) \/ ChannelOps(ClientIds, Topics)
    \/ BroadcastOps \/ CallbackEnds({"t1"}) \/ BroadcastEnds({"t1"})

SpecChannel == Init /\ [][NextChannel]_vars

\* concurrent mutations of one view by two coroutines, suspended in the callback
\* of a subscriber
NextRace ==
    \/ ViewOps({"v1"}) \/ ComponentOps(Tasks, {"v1"})
    \/ ChannelOps({"A"}, {WILDCARD}) \/ CallbackEnds(Tasks)

SpecRace == Init /\ [][NextRace]_vars

\* two views and the components put into them, by one coroutine, no client
NextShare == ViewOps(ViewIds) \/ ComponentOps({"t1"}, ViewIds)

SpecShare == Init /\ [][NextShare]_vars

\* the views alone: created, deleted and pushed in full, with one client that
\* subscribes to any of them
NextViews ==
    \/ ViewOps(ViewIds) \/ PushOps({"t1"}, ViewIds)
    \/ ChannelOps({"A"}, Topics) \/ CallbackEnds({"t1"})

SpecViews == Init /\ [][NextViews]_vars

\* the queue of one client: pushes for both views, get_update by two coroutines
NextQueue ==
    \/ DirectPush(Tasks, ViewIds) \/ ChannelOps({"A"}, {"v1", WILDCARD})
    \/ GetOps(Tasks, {"A"}) \/ CallbackEnds(Tasks)

SpecQueue == Init /\ [][NextQueue]_vars

\* polling: get_update with and without timeout, for a client that connects once
\* and stays connected and for one that never connects
NextPoll ==
    \/ /\ clients = <<>>
       /\ \E cb \in BOOLEAN : Connect("A", cb)
    \/ \E topic \in Topics : Subscribe("A", topic)
    \/ DirectPush(Tasks, ViewIds)
    \/ GetOps(Tasks, ClientIds) \/ CallbackEnds(Tasks)

\* the event loop runs the timer of asyncio.wait_for: an armed timeout elapses
SpecPoll ==
    /\ Init /\ [][NextPoll]_vars
    /\ \A t \in Tasks : WF_vars(GetTimesOut(t))

\* the authoring tools called by one coroutine on one view, with and without an
\* envelope ContextEnvelope rejects, for a client that connects once, to every view
NextAuthoring ==
    \/ /\ clients = <<>>
       /\ UiConnectClient("A", <<WILDCARD>>, NoEnvelope)
    \/ \E e \in GateEnvelopes : UiCreateView("v1", e)
    \/ \E e \in GateEnvelopes : UiDeleteView("v1", e)
    \/ \E ty \in ToolTypes, p \in CreateProps, e \in GateEnvelopes :
            UiAddComponent("t1", "v1", ty, p, None, "m1", NoPosition, e)
    \/ \E e \in GateEnvelopes :
            UiUpdateComponent("t1", "v1", "m1", Some([value |-> 150]), None, e)
    \/ \E e \in GateEnvelopes : UiRemoveComponent("t1", "v1", "m1", e)
    \/ \E e \in GateEnvelopes : UiPushView("t1", "v1", e)
    \/ \E m \in Metrics, e \in GateEnvelopes : UiCreateDashboard("t1", "v2", m, e)
    \/ \E ty \in ToolTypes, p \in CreateProps : CreateComponent("m1", ty, p, None)

SpecAuthoring == InitServer /\ [][NextAuthoring]_vars

\* the operational tools with every envelope, for two clients, and push called
\* directly
NextOperational ==
    \/ \E c \in ClientIds, ids \in SubscribeTo, e \in Envelopes : UiConnectClient(c, ids, e)
    \/ \E c \in ClientIds, e \in Envelopes : UiDisconnectClient(c, e)
    \/ \E c \in ClientIds, e \in Envelopes : UiSubscribe(c, "v1", e)
    \/ \E e \in Envelopes : UiGetViewHistory("v1", e)
    \/ DirectPush({"t1"}, {"v1"})

SpecOperational == Init /\ [][NextOperational]_vars

\* the registry: definitions registered and components created from them
NextRegistry ==
    \/ \E d \in Definitions : Register(d)
    \/ \E ty \in RegistryTypes, p \in RegistryProps, st \in RegistryStyles :
            CreateComponent("m1", ty, p, st)

SpecRegistry == Init /\ [][NextRegistry]_vars

\* add_component alone: three components put into one view at every position
NextInsert ==
    \E c \in 1..Len(cobj), pos \in InsertPositions : AddComponent("t1", "v1", c, pos)

SpecInsert == InitInsert /\ [][NextInsert]_vars

\* two mutations of one view in flight: client A with a callback and then client
\* B are connected and subscribed before the first mutation, then two coroutines
\* add and update a component while the callbacks suspend, return or raise
NextOrder ==
    \/ /\ vobj = <<>>
       /\ CreateView("v1")
    \/ /\ Len(vobj) = 1 /\ cobj = <<>>
       /\ \E p \in CreateProps : CreateComponent("m1", "metric", p, None)
    \/ /\ clients = <<>>
       /\ Connect("A", TRUE)
    \/ /\ Len(clients) = 1 /\ recorded = <<>>
       /\ \E cb \in BOOLEAN : Connect("B", cb)
    \/ /\ recorded = <<>>
       /\ \E c \in ClientIds, topic \in {"v1", WILDCARD} : Subscribe(c, topic)
    \/ \E t \in Tasks, c \in 1..Len(cobj) : AddComponent(t, "v1", c, NoPosition)
    \/ \E t \in Tasks, a \in UpdateArgs : UpdateComponent(t, "v1", "m1", a[1], a[2])
    \/ CallbackEnds(Tasks)

SpecOrder == Init /\ [][NextOrder]_vars

\* the history below and at its cap: the operations of the manager and of the
\* channel, by one coroutine for one client, run either on the empty history or
\* after record_update has filled it to one entry short of the cap
CapReady == recorded = <<>> \/ Len(recorded) >= HISTORY_CAP - 1

NextCap ==
    \/ /\ vobj = <<>> /\ cobj = <<>> /\ clients = <<>>
       /\ Len(recorded) < HISTORY_CAP - 1
       /\ RecordUpdate("v1")
    \/ /\ CapReady /\ vobj = <<>>
       /\ CreateView("v1")
    \/ /\ CapReady
       /\ DeleteView("v1")
    \/ /\ CapReady /\ cobj = <<>>
       /\ \E p \in CreateProps : CreateComponent("m1", "metric", p, None)
    \/ /\ CapReady
       /\ \E c \in 1..Len(cobj) : AddComponent("t1", "v1", c, NoPosition)
    \/ /\ CapReady
       /\ \E cid \in CompIds : UpdateComponent("t1", "v1", cid, Some([value |-> 150]), None)
    \/ /\ CapReady
       /\ RemoveComponent("t1", "v1", "m1")
    \/ /\ CapReady
       /\ PushView("t1", "v1")
    \/ /\ CapReady /\ clients = <<>>
       /\ \E cb \in BOOLEAN : Connect("A", cb)
    \/ /\ CapReady
       /\ Disconnect("A")
    \/ /\ CapReady
       /\ Subscribe("A", WILDCARD)
    \/ /\ CapReady
       /\ Unsubscribe("A", WILDCARD)
    \/ /\ CapReady
       /\ GetUpdate("t1", "A", Timeout(1))
    \/ GetTimesOut("t1")
    \/ CallbackEnds({"t1"})

SpecCap == Init /\ [][NextCap]_vars

\* two clients subscribed to everything that unsubscribe and subscribe again,
\* and pushes for both views: a client whose set lacks a view id has unsubscribed
\* from it and not subscribed to it since
NextUnsubscribe ==
    \/ \E c \in ClientIds, topic \in Topics : Unsubscribe(c, topic)
    \/ \E c \in ClientIds, topic \in Topics : Subscribe(c, topic)
    \/ DirectPush({"t1"}, ViewIds)
    \/ CallbackEnds({"t1"})

SpecUnsubscribe == InitSubscribed /\ [][NextUnsubscribe]_vars

\* two connected and subscribed clients that disconnect and never connect again,
\* with pushes and get_update calls before and after: a client that is not
\* connected has been disconnected
NextDisconnect ==
    \/ \E c \in ClientIds : Disconnect(c)
    \/ DirectPush(Tasks, {"v1"})
    \/ GetOps(Tasks, ClientIds)
    \/ CallbackEnds(Tasks)

SpecDisconnect == InitSubscribed /\ [][NextDisconnect]_vars

\* mutations and push_view of one view by two coroutines, with a callback client
\* and a broadcast callback that come and go while the pushes are suspended
NextRun ==
    \/ /\ vobj = <<>>
       /\ CreateView("v1")
    \/ /\ cobj = <<>>
       /\ \E p \in CreateProps : CreateComponent("m1", "metric", p, None)
    \/ \E t \in Tasks, c \in 1..Len(cobj) : AddComponent(t, "v1", c, NoPosition)
    \/ \E t \in Tasks : UpdateComponent(t, "v1", "m1", Some([value |-> 150]), None)
    \/ \E t \in Tasks : RemoveComponent(t, "v1", "m1")
    \/ PushOps(Tasks, {"v1"})
    \/ Connect("A", TRUE)
    \/ Disconnect("A")
    \/ Subscribe("A", WILDCARD)
    \/ BroadcastOps
    \/ CallbackEnds(Tasks)
    \/ BroadcastEnds(Tasks)

\* the event loop is fair and every awaited callback ends: a coroutine suspended
\* in a callback is resumed, by the callback returning or raising
SpecRun ==
    /\ Init /\ [][NextRun]_vars
    /\ \A t \in Tasks : WF_vars(CallbackReturns(t) \/ CallbackRaises(t))
    /\ \A t \in Tasks : WF_vars(BroadcastCallbackEnds(t))

\* definitions registered, components created from them, put into a view and
\* updated, by one coroutine and with no client
NextDefaults ==
    \/ /\ vobj = <<>>
       /\ CreateView("v1")
    \/ \E d \in {x \in Definitions : x.component_type = "progress"} : Register(d)
    \/ \E cid \in CompIds, p \in RegistryProps : CreateComponent(cid, "progress", p, None)
    \/ \E c \in 1..Len(cobj) : AddComponent("t1", "v1", c, NoPosition)
    \/ \E cid \in CompIds :
            UpdateComponent("t1", "v1", cid, Some([variant |-> "dial"]), Some([color |-> "red"]))

SpecDefaults == Init /\ [][NextDefaults]_vars

\* the history alone: record_update past the cap
NextHistory == \E v \in ViewIds : RecordUpdate(v)

SpecHistory == Init /\ [][NextHistory]_vars

\* the dashboard build: create a view, create a component, add it, connect a
\* client, subscribe it, update the component; each step with any input
NextDash ==
    \/ /\ vobj = <<>>
       /\ \E v \in ViewIds : CreateView(v)
    \/ /\ Len(vobj) = 1 /\ cobj = <<>>
       /\ \E cid \in CompIds, ty \in CreateTypes, p \in CreateProps, st \in CreateStyles :
              CreateComponent(cid, ty, p, st)
    \/ /\ Len(cobj) = 1 /\ history = <<>>
       /\ \E v \in ViewIds, pos \in Positions : AddComponent("t1", v, 1, pos)
    \/ /\ Len(history) = 1 /\ clients = <<>>
       /\ \E c \in ClientIds, cb \in BOOLEAN : Connect(c, cb)
    \/ /\ Len(history) = 1 /\ clients # <<>>
       /\ \E c \in ClientIds, topic \in Topics : Subscribe(c, topic)
    \/ /\ Len(history) = 1 /\ clients # <<>>
       /\ \E v \in ViewIds, cid \in CompIds, a \in UpdateArgs :
              UpdateComponent("t1", v, cid, a[1], a[2])
    \/ CallbackReturns("t1")
    \/ CallbackRaises("t1")

SpecDash == Init /\ [][NextDash]_vars

----------------------------------------------------------------------------
(* Vocabulary of the properties *)

Mutations == {"add_component", "update_component", "remove_component"}

\* this step is coroutine t calling a ViewManager operation (or push)
Starts(t) ==
    /\ task[t].pc \notin Suspended
    /\ task'[t].op # "none"
    /\ task'[t] # task[t]

ToSet(s) == {s[i] : i \in 1..Len(s)}

\* the connected clients whose subscription set holds the view id or "*"
SubscribersOf(v) ==
    {c \in ClientIds : \E i \in 1..Len(clients) :
        /\ clients[i].live /\ clients[i].client_id = c
        /\ (v \in clients[i].subscribed_views \/ "*" \in clients[i].subscribed_views)}

\* the clients to which this step attempted a delivery for coroutine t, in order
NewAttempts(t) ==
    IF task[t].pc \in Suspended /\ task'[t].pc # "idle"
    THEN SubSeq(task'[t].attempted, Len(task[t].attempted) + 1, Len(task'[t].attempted))
    ELSE task'[t].attempted

\* the view stored under id v
Stored(v) == vobj[views[v]]

----------------------------------------------------------------------------
(* C1 *)

\* C1 (as claimed): a stored view's version equals the number of store.save calls
\* made on it, the save of create_view being the first; so create_view yields 1.
C1_VersionEqualsSaveCount ==
    \A v \in ViewIds : views[v] # 0 => Stored(v).version = saveCount[views[v]]

\* What the code does: UIView starts at version 1 and every save adds 1, so the
\* version is the number of saves plus one and create_view yields 2.
C1_VersionIsSaveCountPlusOne ==
    \A r \in 1..Len(vobj) : vobj[r].version = saveCount[r] + 1

----------------------------------------------------------------------------
(* C2 *)

\* C2: every successful add_component, update_component and remove_component
\* raises the stored view's version by exactly 1, and the ViewUpdate it records
\* and pushes carries the version the view has right after that save, whatever
\* other mutation is suspended in a callback meanwhile.
C2_MutationBumpsVersionByOne ==
    [][\A t \in Tasks :
         (Starts(t) /\ task'[t].op \in Mutations /\ task'[t].found) =>
            LET u == task'[t].update
                r == views[task'[t].view_id]
            IN /\ r # 0
               /\ views'[task'[t].view_id] = r
               /\ vobj'[r].version = vobj[r].version + 1
               /\ u.view_id = task'[t].view_id
               /\ u.action = task'[t].op
               /\ u.version = vobj'[r].version
               /\ history' = Append(history, u)]_vars

\* a mutation is suspended in a subscriber's callback while a second mutation of
\* the same view has been saved with the next version
C2_Witness ==
    \E t \in Tasks, u \in Tasks :
        /\ t # u
        /\ task[t].pc = "in_callback" /\ task[t].op \in Mutations
        /\ task[u].pc \in {"in_callback", "done"} /\ task[u].op \in Mutations
        /\ task[u].view_id = task[t].view_id
        /\ task[u].update.version = task[t].update.version + 1
        /\ views[task[u].view_id] # 0
        /\ Stored(task[u].view_id).version = task[u].update.version

----------------------------------------------------------------------------
(* C3 *)

\* C3: a push attempts delivery to exactly the connected clients whose subscription
\* set holds update.view_id or "*", each once, and to no other client; with no such
\* client it returns 0.  (Stated of a push during which no client connected,
\* disconnected, subscribed or unsubscribed, so that "subscribed" has one meaning.)
C3_PushReachesExactlySubscribers ==
    \A t \in Tasks :
        (task[t].op = "push" /\ task[t].stable) =>
            LET subs == SubscribersOf(task[t].update.view_id)
            IN /\ task[t].pc # "raised"
               /\ ToSet(task[t].attempted) \subseteq subs
               /\ Len(task[t].attempted) = Cardinality(ToSet(task[t].attempted))
               /\ task[t].pc = "done" =>
                    /\ ToSet(task[t].attempted) = subs
                    /\ subs = {} => task[t].recipients = 0

\* A subscribed to v1 only, B to "*": a finished push for v2 attempted B alone
C3_Witness ==
    \E t \in Tasks, i \in 1..Len(clients), j \in 1..Len(clients) :
        /\ clients[i].live /\ clients[i].client_id = "A"
        /\ clients[i].subscribed_views = {"v1"}
        /\ clients[j].live /\ clients[j].client_id = "B"
        /\ clients[j].subscribed_views = {"*"}
        /\ task[t].pc = "done" /\ task[t].op = "push" /\ task[t].stable
        /\ task[t].update.view_id = "v2"
        /\ task[t].attempted = <<"B">>
        /\ task[t].recipients = 1

----------------------------------------------------------------------------
(* C4 *)

\* C4: a callback that raises during push is not propagated to push's caller,
\* delivery goes on to every remaining subscribed client, and the count push
\* returns is the number of subscribed clients whose delivery did not raise; the
\* failing client is neither counted nor tried again.
C4_DeliveryIsolation ==
    \A t \in Tasks :
        task[t].op = "push" =>
            /\ task[t].failed \subseteq ToSet(task[t].attempted)
            /\ Len(task[t].attempted) = Cardinality(ToSet(task[t].attempted))
            /\ task[t].pc = "done" =>
                 /\ task[t].recipients = Cardinality(ToSet(task[t].attempted) \ task[t].failed)
                 /\ task[t].stable =>
                        ToSet(task[t].attempted) = SubscribersOf(task[t].update.view_id)
            /\ task[t].pc = "raised" =>
                 /\ ~task[t].stable
                 /\ task[t].error \in
                        {"RuntimeError: dictionary changed size during iteration",
                         "RuntimeError: dictionary keys changed during iteration"}

\* A's callback raised, B was still delivered to, and push returned 1
C4_Witness ==
    \E t \in Tasks :
        /\ task[t].pc = "done" /\ task[t].op = "push"
        /\ task[t].attempted = <<"A", "B">>
        /\ task[t].failed = {"A"}
        /\ task[t].recipients = 1

----------------------------------------------------------------------------
(* C10 *)

\* the subscription set of connected client c
SubscriptionsOf(es, c) ==
    UNION {es[i].subscribed_views : i \in {j \in 1..Len(es) : es[j].live /\ es[j].client_id = c}}

\* number of connections held for client c
ConnectionsOf(es, c) ==
    Cardinality({i \in 1..Len(es) : es[i].live /\ es[i].client_id = c})

\* C10: connect on an already connected client id leaves exactly one connection
\* for it, with an empty subscription set; and no push delivers to a connected
\* client while its subscription set is empty.
C10_ReconnectResetsSubscriptions ==
    [][/\ \A c \in ClientIds :
            (call'.op = "connect" /\ call'.a = c /\ ConnectionsOf(clients, c) > 0) =>
                /\ ConnectionsOf(clients', c) = 1
                /\ SubscriptionsOf(clients', c) = {}
       /\ \A c \in ClientIds :
            (ConnectionsOf(clients, c) > 0 /\ SubscriptionsOf(clients, c) = {}) =>
                /\ Len(queues'[c]) <= Len(queues[c])
                /\ \A t \in Tasks : c \notin ToSet(NewAttempts(t))]_vars

\* a connected client holding subscriptions has just been connected again
C10_Witness ==
    /\ call.op = "connect"
    /\ ConnectionsOf(clients, call.a) = 1
    /\ SubscriptionsOf(clients, call.a) = {}
    /\ \E t \in Tasks : task[t].pc = "in_callback" /\ task[t].cur = call.a

----------------------------------------------------------------------------
(* C5 *)

\* new is old with the supplied map merged in key by key
MergedInto(new, old, supplied) ==
    LET given == IF supplied.some THEN DOMAIN supplied.val ELSE {}
    IN /\ DOMAIN new = (DOMAIN old) \cup given
       /\ \A k \in DOMAIN new :
            new[k] = IF k \in given THEN supplied.val[k] ELSE old[k]

\* C5: a successful update_component leaves the component's props and styles as
\* the old maps with every supplied key overwritten or added and every other key
\* at its previous value.
C5_UpdateMerges ==
    [][\A t \in Tasks :
         (Starts(t) /\ task'[t].op = "update_component" /\ task'[t].found) =>
            LET c == FindComponent(vobj[views[task'[t].view_id]].components,
                                   task'[t].component_id)
            IN /\ c # 0
               /\ MergedInto(cobj'[c].props, cobj[c].props, task'[t].update.payload.props)
               /\ MergedInto(cobj'[c].styles, cobj[c].styles, task'[t].update.payload.styles)
               /\ \A d \in 1..Len(cobj) : d # c => cobj'[d] = cobj[d]]_vars

\* {label: Users, value: 100} updated with {value: 150} is {label: Users, value: 150}
C5_Witness ==
    \E t \in Tasks :
        /\ task[t].op = "update_component" /\ task[t].found
        /\ task[t].update.payload.props = Some([value |-> 150])
        /\ \E c \in 1..Len(cobj) :
              /\ cobj[c].id = task[t].component_id
              /\ cobj[c].props = [label |-> "Users", value |-> 150]

----------------------------------------------------------------------------
(* C8 *)

\* C8: remove_component on a stored view holding no component with the given id
\* returns False, leaves the view's version and component list as they were,
\* records nothing in the history and pushes nothing.
C8_RemoveUnknownComponent ==
    [][\A t \in Tasks :
         (/\ Starts(t) /\ task'[t].op = "remove_component"
          /\ views[task'[t].view_id] # 0
          /\ FindComponent(vobj[views[task'[t].view_id]].components,
                           task'[t].component_id) = 0) =>
            /\ task'[t].pc = "done" /\ ~task'[t].found
            /\ task'[t].attempted = <<>> /\ task'[t].recipients = 0
            /\ \A u \in Tasks : NewAttempts(u) = <<>>
            /\ UNCHANGED <<views, vobj, cobj, history, recorded, queues>>]_vars

\* the unknown id was removed from a view that holds a component, with a wildcard
\* subscriber connected
C8_Witness ==
    \E t \in Tasks :
        /\ task[t].op = "remove_component" /\ task[t].pc = "done" /\ ~task[t].found
        /\ views[task[t].view_id] # 0
        /\ Len(vobj[views[task[t].view_id]].components) > 0
        /\ SubscribersOf(task[t].view_id) # {}

----------------------------------------------------------------------------
(* C9 *)

ManagerOps == {"add_component", "update_component", "remove_component", "full"}

\* C9: add_component, update_component, remove_component and push_view on a view
\* id that is not stored, and update_component on a component id the view does
\* not hold, return None / False / 0 without raising and leave the stored views,
\* the components, the history and every client queue as they were, and call no
\* callback.
C9_NotFoundChangesNothing ==
    [][\A t \in Tasks :
         (/\ Starts(t) /\ task'[t].op \in ManagerOps
          /\ \/ views[task'[t].view_id] = 0
             \/ /\ task'[t].op = "update_component"
                /\ FindComponent(vobj[views[task'[t].view_id]].components,
                                 task'[t].component_id) = 0) =>
            /\ task'[t].pc = "done" /\ task'[t].error = ""
            /\ ~task'[t].found /\ task'[t].recipients = 0
            /\ task'[t].attempted = <<>>
            /\ \A u \in Tasks : NewAttempts(u) = <<>>
            /\ UNCHANGED <<views, vobj, cobj, history, recorded, queues, clients>>]_vars

\* an operation on a view id that is not stored has returned while another view
\* is stored, updates are in the history and a wildcard subscriber is connected
C9_Witness ==
    \E t \in Tasks :
        /\ task[t].op \in ManagerOps /\ task[t].pc = "done" /\ ~task[t].found
        /\ views[task[t].view_id] = 0
        /\ \E v \in ViewIds : views[v] # 0
        /\ history # <<>>
        /\ SubscribersOf(task[t].view_id) # {}

----------------------------------------------------------------------------
(* C6 *)

\* the last n entries of s, all of s if it has fewer
LastN(s, n) == IF Len(s) <= n THEN s ELSE SubSeq(s, Len(s) - n + 1, Len(s))

\* C6: after any sequence of record_update calls the history holds
\* min(total recorded, HISTORY_CAP) entries, and they are the most recently
\* recorded ones in the order they were recorded.
C6_HistoryBound ==
    /\ Len(history) = (IF Len(recorded) < HISTORY_CAP THEN Len(recorded) ELSE HISTORY_CAP)
    /\ history = LastN(recorded, HISTORY_CAP)

\* more updates were recorded than the cap: the oldest ones are gone
C6_Witness ==
    /\ Len(recorded) = HISTORY_CAP + 3
    /\ Len(history) = HISTORY_CAP
    /\ history[1].version = 4
    /\ history[HISTORY_CAP] = recorded[Len(recorded)]

----------------------------------------------------------------------------
(* C7 *)

\* the finished operations of the dashboard build
DashAdded(t) ==
    task[t].op = "add_component" /\ task[t].pc = "done" /\ task[t].found

DashUpdated(t) ==
    /\ task[t].op = "update_component" /\ task[t].pc = "done" /\ task[t].found
    /\ task[t].update.payload.props = Some([value |-> 150])
    /\ task[t].failed = {} /\ SubscribersOf(task[t].view_id) # {}

\* C7 (as claimed): create_view gives version 1; the add_component that follows
\* gives version 2 and reaches 0 recipients; after connect and subscribe,
\* update_component with props {value: 150} gives version 3, reaches exactly 1
\* recipient, and the update carries props {value: 150} and version 3.
C7_DashboardAsClaimed ==
    /\ call.op = "create_view" => Stored(call.a).version = 1
    /\ \A t \in Tasks :
          /\ DashAdded(t) =>
                /\ Stored(task[t].view_id).version = 2
                /\ task[t].update.version = 2
                /\ task[t].recipients = 0
          /\ DashUpdated(t) =>
                /\ Stored(task[t].view_id).version = 3
                /\ task[t].update.version = 3
                /\ task[t].recipients = 1

\* C7 (as the code runs): the same scenario with every version one higher, the
\* constructor's version 1 being bumped by the save of create_view.
C7_DashboardOneHigher ==
    /\ call.op = "create_view" => Stored(call.a).version = 2
    /\ \A t \in Tasks :
          /\ DashAdded(t) =>
                /\ Stored(task[t].view_id).version = 3
                /\ task[t].update.version = 3
                /\ task[t].recipients = 0
          /\ DashUpdated(t) =>
                /\ Stored(task[t].view_id).version = 4
                /\ task[t].update.version = 4
                /\ task[t].recipients = 1
                /\ \A c \in SubscribersOf(task[t].view_id) :
                      \/ queues[c] = <<task[t].update>>
                      \/ task[t].attempted = <<c>> /\ queues[c] = <<>>

\* the build has run to its end: one recipient got the update of props {value: 150}
C7_DashboardBuilt ==
    \E t \in Tasks : DashUpdated(t) /\ task[t].recipients = 1

----------------------------------------------------------------------------
(* C15 *)

\* C15 (as claimed): in every reachable state the components of a stored view
\* have pairwise distinct ids; add_component never leaves two with the same id.
C15_ComponentIdsDistinct ==
    \A v \in ViewIds :
        views[v] # 0 =>
            \A i, j \in 1..Len(Stored(v).components) :
                i # j => cobj[Stored(v).components[i]].id # cobj[Stored(v).components[j]].id

----------------------------------------------------------------------------
(* C16 *)

\* what an update says to whoever reads it: its payload with the dicts it refers
\* to looked up in the components objs
Reading(u, objs) ==
    [view_id |-> u.view_id, action |-> u.action, version |-> u.version,
     component_id |-> u.payload.component_id,
     props |-> u.payload.props, styles |-> u.payload.styles,
     component |-> IF u.payload.component = 0 THEN <<>>
                   ELSE <<objs[u.payload.component]>>,
     components |-> [i \in 1..Len(u.payload.components) |-> objs[u.payload.components[i]]],
     view_version |-> u.payload.version]

\* C16 (as claimed): no operation changes the payload or the version of an update
\* that was recorded in the history, queued or handed to a callback before it.
C16_UpdatesImmutable ==
    [][\A i \in 1..Len(recorded) :
         Reading(recorded[i], cobj') = Reading(recorded[i], cobj)]_vars

----------------------------------------------------------------------------
(* C17 *)

\* what view v holds: its version and its components as they read
Holding(v, vs, objs) ==
    [version |-> vs[views[v]].version,
     components |-> [i \in 1..Len(vs[views[v]].components) |->
                        objs[vs[views[v]].components[i]]]]

\* C17 (as claimed): update_component on view v changes only v; the components
\* and the version of every other stored view stay as they were and no update is
\* emitted for them, also when one component was added to both views.
C17_UpdateTouchesOneView ==
    [][\A t \in Tasks :
         (Starts(t) /\ task'[t].op = "update_component" /\ task'[t].found) =>
            \A v \in ViewIds \ {task'[t].view_id} :
                views[v] # 0 =>
                    /\ views'[v] = views[v]
                    /\ Holding(v, vobj', cobj') = Holding(v, vobj, cobj)
                    /\ \A i \in (Len(recorded) + 1)..Len(recorded') :
                          recorded'[i].view_id # v]_vars

----------------------------------------------------------------------------
(* C18 *)

\* coroutine t runs push_view on a stored view in this step
PushesView(t) ==
    /\ task[t].pc \notin Suspended
    /\ task'[t].op = "full" /\ task'[t].found
    /\ task'[t] # task[t] \/ recorded' # recorded \/ vobj' # vobj

\* C18: push_view on a stored view emits exactly one "full" update, which carries
\* the view's current components and current version, returns the number of
\* recipients, and leaves the stored view (version, components) as it was.
C18_PushViewIsPure ==
    [][\A t \in Tasks :
         PushesView(t) =>
            LET v == task'[t].view_id
                u == task'[t].update
            IN /\ recorded' = Append(recorded, u)
               /\ u.view_id = v /\ u.action = "full"
               /\ u.version = Stored(v).version
               /\ u.payload.version = Stored(v).version
               /\ u.payload.components = Stored(v).components
               /\ task'[t].pc = "done" =>
                     task'[t].recipients =
                        Cardinality(ToSet(task'[t].attempted) \ task'[t].failed)
               /\ UNCHANGED <<views, vobj, cobj, saveCount>>]_vars

\* a view holding a component was pushed in full to one recipient
C18_Witness ==
    \E t \in Tasks :
        /\ task[t].op = "full" /\ task[t].found /\ task[t].pc = "done"
        /\ task[t].recipients = 1
        /\ views[task[t].view_id] # 0
        /\ Len(Stored(task[t].view_id).components) > 0
        /\ task[t].update.payload.components = Stored(task[t].view_id).components
        /\ task[t].update.version = Stored(task[t].view_id).version
        /\ history[Len(history)] = task[t].update

----------------------------------------------------------------------------
(* C19 *)

\* C19: create_view and delete_view record nothing in the history, enqueue nothing
\* and invoke no callback; delete_view returns False for an id that is not stored
\* and True otherwise, after which the id is not stored; and every client keeps
\* its subscriptions, those to the deleted id included.
C19_ViewOpsEmitNothing ==
    [][(call'.op \in {"create_view", "delete_view"}) =>
          /\ UNCHANGED <<history, recorded, queues, clients, broadcast>>
          /\ \A t \in Tasks : task'[t] = task[t] \/ task'[t] = IdleFrame
          /\ call'.op = "delete_view" =>
                /\ views[call'.a] = 0 => call'.ret = "False"
                /\ views[call'.a] # 0 => call'.ret = "True"
                /\ views'[call'.a] = 0
          /\ call'.op = "create_view" => views'[call'.a] # 0]_vars

\* a stored view was deleted while a client is subscribed to its id, an update
\* for it is in the history and a callback for it is running
C19_Witness ==
    /\ call.op = "delete_view" /\ call.ret = "True"
    /\ \E i \in 1..Len(clients) : clients[i].live /\ call.a \in clients[i].subscribed_views
    /\ \E i \in 1..Len(history) : history[i].view_id = call.a
    /\ \E t \in Tasks : task[t].pc = "in_callback" /\ task[t].view_id = call.a

----------------------------------------------------------------------------
(* C20 *)

\* what remove_component returned: False from both early returns, True at the end
RemoveReturned(f) == Bool(f.found)

\* C20 (as claimed): for a view id that is not stored remove_component returns a
\* failure other than the False it returns when the view holds no such component.
C20_ViewNotFoundIsDistinct ==
    \A t \in Tasks :
        (/\ task[t].op = "remove_component" /\ task[t].pc = "done"
         /\ views[task[t].view_id] = 0 /\ ~task[t].found) =>
            RemoveReturned(task[t]) # "False"

----------------------------------------------------------------------------
(* C13 *)

\* the view_id arguments of get_history
ViewIdArgs == {NoViewId} \cup {ViewId(v) : v \in ViewIds}

\* the entries of the history that view_id selects
Matching(view_id) ==
    IF view_id.some THEN SelectSeq(history, LAMBDA u : u.view_id = view_id.val)
    ELSE history

\* C13 (as claimed): for every limit >= 0, 0 included, get_history returns at most
\* limit updates; with a view_id given each of them has that view_id; and they are
\* the most recent matching entries of the history, in the order of recording.
C13_HistoryAtMostLimit ==
    \A view_id \in ViewIdArgs, limit \in 0..MaxLimit :
        LET r == get_history(history, view_id, limit)
        IN /\ Len(r) <= limit
           /\ view_id.some => \A i \in 1..Len(r) : r[i].view_id = view_id.val
           /\ r = LastN(Matching(view_id), limit)

\* C13 (as the code runs): the same for every limit >= 1
C13_HistoryPositiveLimit ==
    \A view_id \in ViewIdArgs, limit \in 1..MaxLimit :
        LET r == get_history(history, view_id, limit)
        IN /\ Len(r) <= limit
           /\ view_id.some => \A i \in 1..Len(r) : r[i].view_id = view_id.val
           /\ r = LastN(Matching(view_id), limit)

\* limit 0 returns the whole history
C13_LimitZeroReturnsAll ==
    \A view_id \in ViewIdArgs : get_history(history, view_id, 0) = Matching(view_id)

----------------------------------------------------------------------------
(* C14 *)

\* number of times g occurs in the sequence s
Occurrences(s, g) == Cardinality({i \in 1..Len(s) : s[i] = g})

\* a push has ended, by returning or by raising, with the registrations of the
\* broadcast callbacks as they were when it started
PushEnded(t) ==
    /\ task[t].op = "push" /\ task[t].pc \in {"done", "raised"}
    /\ task[t].bstable

\* C14 (as claimed): every registered broadcast callback is invoked exactly once
\* per push, whatever the clients' subscriptions.
C14_BroadcastExactlyOnce ==
    \A t \in Tasks :
        PushEnded(t) =>
            \A g \in ToSet(broadcast) : Occurrences(task[t].invoked, g) = 1

\* C14 (as the code runs): a push that returns has invoked the callbacks once per
\* registration, in the order of registration
C14_OncePerRegistration ==
    \A t \in Tasks :
        (PushEnded(t) /\ task[t].pc = "done") => task[t].invoked = broadcast

\* a push that no client is subscribed to has invoked the broadcast callback
C14_BroadcastWithoutSubscribers ==
    \E t \in Tasks :
        /\ PushEnded(t) /\ task[t].pc = "done"
        /\ SubscribersOf(task[t].update.view_id) = {}
        /\ task[t].attempted = <<>>
        /\ task[t].invoked = <<"g1">>

\* a push that raised the dict iterator's RuntimeError has invoked no broadcast
\* callback
C14_RaisedPushSkipsBroadcast ==
    \E t \in Tasks :
        /\ PushEnded(t) /\ task[t].pc = "raised"
        /\ broadcast # <<>> /\ task[t].invoked = <<>>

----------------------------------------------------------------------------
(* C11 *)

\* client c is connected without a callback
QueueMode(c) == IndexOf(clients, c) # 0 /\ ~clients[IndexOf(clients, c)].callback

\* the pushes that attempt delivery to c in this step
PushingTo(c) == {t \in Tasks : c \in ToSet(NewAttempts(t))}

\* the get_update calls for c that return an update in this step
GettingFrom(c) ==
    {t \in Tasks : /\ task'[t].op = "get_update" /\ task'[t].cur = c
                   /\ task'[t].pc = "done" /\ task'[t].found
                   /\ task'[t] # task[t] \/ queues' # queues}

\* C11: a push that matches the subscriptions of a client connected without a
\* callback puts the update at the end of that client's queue and counts it; a
\* get_update that returns an update returns the oldest one of the client's queue
\* and takes it out; and nothing else changes a queue except connect and
\* disconnect of its client.  So get_update returns the updates once each, in the
\* order they were pushed.
C11_QueueDelivery ==
    [][\A c \in ClientIds :
         /\ \A t \in PushingTo(c) :
               QueueMode(c) =>
                  /\ queues'[c] = Append(queues[c], task'[t].update)
                  /\ c \notin task'[t].failed
                  /\ task'[t].pc = "done" =>
                        task'[t].recipients =
                           Cardinality(ToSet(task'[t].attempted) \ task'[t].failed)
         /\ \A t \in GettingFrom(c) :
               /\ queues[c] # <<>>
               /\ task'[t].update = queues[c][1]
               /\ queues'[c] = SubSeq(queues[c], 2, Len(queues[c]))
         /\ (PushingTo(c) = {} /\ GettingFrom(c) = {}) =>
               \/ queues'[c] = queues[c]
               \/ call'.op \in {"connect", "disconnect"} /\ call'.a = c /\ queues'[c] = <<>>]_vars

\* of the updates for v1 and then v2 queued for A, get_update has returned the one
\* for v1 and the one for v2 is next
C11_Witness ==
    \E t \in Tasks :
        /\ task[t].op = "get_update" /\ task[t].pc = "done" /\ task[t].found
        /\ task[t].cur = "A" /\ QueueMode("A")
        /\ task[t].update.view_id = "v1"
        /\ Len(queues["A"]) = 1 /\ queues["A"][1].view_id = "v2"

----------------------------------------------------------------------------
(* C12 *)

\* C12 (as claimed): a get_update that waits on an empty queue with a timeout
\* supplied, 0 included, eventually returns.
C12_TimedGetReturns ==
    \A t \in Tasks :
        (task[t].pc = "in_get" /\ task[t].timeout.some) ~> (task[t].pc # "in_get")

\* C12 (as the code runs): with a positive timeout it eventually returns
C12_PositiveTimeoutReturns ==
    \A t \in Tasks :
        (task[t].pc = "in_get" /\ task[t].timeout.some /\ task[t].timeout.val > 0)
            ~> (task[t].pc # "in_get")

\* get_update for a client that is not connected returns None at once, and a wait
\* ended by the timeout returns None
C12_NoneWithoutQueue ==
    [][\A t \in Tasks :
         (Starts(t) /\ task'[t].op = "get_update") =>
            /\ IndexOf(clients, task'[t].cur) = 0 =>
                  task'[t].pc = "done" /\ ~task'[t].found
            /\ task'[t].pc \in {"done", "in_get"}
            /\ task'[t].error = ""]_vars

\* get_update with timeout 0 waits on an empty queue with no timer to end the wait
C12_ZeroTimeoutWaits ==
    \E t \in Tasks :
        /\ task[t].pc = "in_get" /\ task[t].timeout = Timeout(0)
        /\ ~task[t].timer

----------------------------------------------------------------------------
(* C21 *)

\* this step is a call of PushChannel.subscribe or PushChannel.unsubscribe
SubscriptionCall == call'.op \in {"subscribe", "unsubscribe"}

\* C21: subscribe and unsubscribe return False and change nothing when the client
\* id is not connected; for a connected client they return True, afterwards the
\* view id is in (subscribe) or not in (unsubscribe) that client's subscription
\* set, every other connection is as it was, and a call that repeats an earlier
\* one (the id already in, or already out of, the set) leaves the set the same.
C21_SubscribeContract ==
    [][SubscriptionCall =>
         LET c == call'.a
             topic == call'.b
             i == IndexOf(clients, c)
         IN IF i = 0
            THEN /\ call'.ret = "False"
                 /\ UNCHANGED <<storeVars, registry, clients, queues, broadcast>>
            ELSE /\ call'.ret = "True"
                 /\ Len(clients') = Len(clients)
                 /\ clients'[i].client_id = c /\ clients'[i].live
                 /\ (call'.op = "subscribe") => topic \in clients'[i].subscribed_views
                 /\ (call'.op = "unsubscribe") => topic \notin clients'[i].subscribed_views
                 /\ \A j \in 1..Len(clients) : j # i => clients'[j] = clients[j]
                 /\ (call'.op = "subscribe" /\ topic \in clients[i].subscribed_views) =>
                        clients'[i].subscribed_views = clients[i].subscribed_views
                 /\ (call'.op = "unsubscribe" /\ topic \notin clients[i].subscribed_views) =>
                        clients'[i].subscribed_views = clients[i].subscribed_views
                 /\ UNCHANGED <<storeVars, registry, queues, broadcast>>]_vars

\* client A has subscribed to a view id that client B, connected as well, is not
\* subscribed to
C21_Witness ==
    /\ call.op = "subscribe" /\ call.ret = "True"
    /\ \E i, j \in 1..Len(clients) :
          /\ clients[i].live /\ clients[i].client_id = call.a
          /\ call.b \in clients[i].subscribed_views
          /\ clients[j].live /\ clients[j].client_id # call.a
          /\ call.b \notin clients[j].subscribed_views

\* subscribe and unsubscribe for a client id that is not connected returned False
C21_UnknownClient ==
    /\ call.op \in {"subscribe", "unsubscribe"} /\ call.ret = "False"
    /\ IndexOf(clients, call.a) = 0

----------------------------------------------------------------------------
(* C22 *)

\* this step is create_component, or ui_add_component, called with the component
\* type ty and the envelope e
CreatesWithType(ty, e) ==
    \/ \E p \in CreateProps : CreateComponent("m1", ty, p, None)
    \/ \E p \in CreateProps : UiAddComponent("t1", "v1", ty, p, None, "m1", NoPosition, e)

\* C22: a component type that is no member of the enum makes create_component
\* raise ValueError before anything has changed, and ui_add_component, once past
\* the envelope and the gate, return the error result for an invalid type: the
\* failed request changes no view, version, component, history or queue and
\* attempts no delivery.
C22_InvalidTypeChangesNothing ==
    [][\A ty \in ToolTypes, e \in GateEnvelopes :
         (ty \notin ComponentTypes /\ CreatesWithType(ty, e)) =>
            /\ UNCHANGED <<views, vobj, saveCount, cobj, history, recorded, queues, clients>>
            /\ \A u \in Tasks : NewAttempts(u) = <<>> /\ task'[u].pc \notin Suspended
            /\ call'.op = "create_component" => call'.ret = "ValueError"
            /\ (/\ call'.op = "ui_add_component"
                /\ from_dict(e).error = ""
                /\ Lower(config.env) = "true" \/ config.authoring_enabled) =>
                    call'.ret = "error: Invalid component type"]_vars

\* ui_add_component has returned the error result for the type "gauge" while the
\* view is stored, holds a component, and a subscriber is connected
C22_Witness ==
    /\ call = Called("ui_add_component", "v1", "gauge", "error: Invalid component type")
    /\ views["v1"] # 0 /\ vobj[views["v1"]].components # <<>>
    /\ history # <<>>
    /\ SubscribersOf("v1") # {}

----------------------------------------------------------------------------
(* C23 *)

\* this step is an operational tool called with the envelope e
OperationalCall(c, ids, e) ==
    \/ UiConnectClient(c, ids, e)
    \/ UiDisconnectClient(c, e)
    \/ UiSubscribe(c, "v1", e)
    \/ UiGetViewHistory("v1", e)

\* C23 (as claimed): whatever the envelope, an operational tool does what it does
\* without one: the step it takes with envelope e is the step the same call takes
\* with the envelope absent, so no envelope makes it fail or be skipped.
C23_EnvelopeIgnored ==
    [][\A c \in ClientIds, ids \in SubscribeTo, e \in Envelopes :
         OperationalCall(c, ids, e) => OperationalCall(c, ids, NoEnvelope)]_vars

\* what holds instead: an envelope that ContextEnvelope.from_dict accepts is
\* ignored, and one it rejects ends the tool with that ValueError and no change
C23_AcceptedEnvelopeIgnored ==
    [][\A c \in ClientIds, ids \in SubscribeTo, e \in Envelopes :
         OperationalCall(c, ids, e) =>
            IF from_dict(e).error = "" THEN OperationalCall(c, ids, NoEnvelope)
            ELSE /\ call'.ret = from_dict(e).error
                 /\ UNCHANGED <<storeVars, registry, config, channelVars>>]_vars

\* ui_subscribe raised ValueError for a client that is connected
C23_RejectedEnvelope ==
    /\ call.op = "ui_subscribe"
    /\ call.ret = "ValueError: Invalid attribute type"
    /\ IndexOf(clients, call.a) # 0

----------------------------------------------------------------------------
(* C24 *)

\* this step is one of the seven authoring tools called with the envelope e
AuthoringCall(e) ==
    \/ UiCreateView("v1", e)
    \/ UiDeleteView("v1", e)
    \/ \E ty \in ToolTypes, p \in CreateProps :
            UiAddComponent("t1", "v1", ty, p, None, "m1", NoPosition, e)
    \/ UiUpdateComponent("t1", "v1", "m1", Some([value |-> 150]), None, e)
    \/ UiRemoveComponent("t1", "v1", "m1", e)
    \/ UiPushView("t1", "v1", e)
    \/ \E m \in Metrics : UiCreateDashboard("t1", "v2", m, e)

\* AUTHORING_ENABLED is not "true" (in any letter case, as the server compares it)
\* and settings.authoring_enabled is false
GateClosed == Lower(config.env) # "true" /\ ~config.authoring_enabled

\* C24 (as claimed): while authoring is disabled, each of the seven authoring
\* tools returns the error result and leaves every view, version, component, the
\* history and every client queue unchanged, and attempts no delivery.
C24_AuthoringGate ==
    [][\A e \in GateEnvelopes :
         (GateClosed /\ AuthoringCall(e)) =>
            /\ call'.ret = AuthoringDisabled
            /\ UNCHANGED <<views, vobj, saveCount, cobj, history, recorded, queues>>
            /\ \A u \in Tasks : NewAttempts(u) = <<>>]_vars

\* what holds: while authoring is disabled an authoring tool changes nothing and
\* attempts no delivery; it returns the error result unless the envelope made
\* _parse_envelope raise before the gate was looked at
C24_ClosedGateChangesNothing ==
    [][\A e \in GateEnvelopes :
         (GateClosed /\ AuthoringCall(e)) =>
            /\ call'.ret = IF from_dict(e).error = ""
                           THEN AuthoringDisabled ELSE from_dict(e).error
            /\ UNCHANGED <<views, vobj, saveCount, cobj, history, recorded, queues>>
            /\ \A u \in Tasks : NewAttempts(u) = <<>>]_vars

\* an authoring tool was refused while a subscriber is connected
C24_Refused ==
    /\ GateClosed
    /\ call.ret = AuthoringDisabled
    /\ SubscribersOf("v1") # {}

----------------------------------------------------------------------------
(* C25 *)

\* the dict an Optional[dict] argument contributes
Supplied(o) == IF o.some THEN o.val ELSE EmptyDict

\* d is the dict defaults overridden key by key by the dict caller
Overrides(d, defaults, caller) ==
    /\ DOMAIN d = (DOMAIN defaults) \cup (DOMAIN caller)
    /\ \A k \in DOMAIN caller : d[k] = caller[k]
    /\ \A k \in (DOMAIN defaults) \ (DOMAIN caller) : d[k] = defaults[k]

\* C25: create_component for a member of the enum succeeds and returns a
\* component with the given id and type whose props (styles) are the
\* default_props (default_styles) of the type's registered definition overridden
\* key by key by the caller's props (styles); for a type that has no registered
\* definition the defaults are empty.
C25_CreateMergesDefaults ==
    [][\A ty \in RegistryTypes, p \in RegistryProps, st \in RegistryStyles :
         CreateComponent("m1", ty, p, st) =>
            LET c == cobj'[Len(cobj')]
                registered == ty \in DOMAIN registry
            IN /\ call'.ret = "none"
               /\ Len(cobj') = Len(cobj) + 1
               /\ c.id = "m1" /\ c.component_type = ty
               /\ Overrides(c.props,
                            IF registered THEN registry[ty].default_props ELSE EmptyDict,
                            Supplied(p))
               /\ Overrides(c.styles,
                            IF registered THEN registry[ty].default_styles ELSE EmptyDict,
                            Supplied(st))]_vars

\* a component was created whose props keep one default and override another,
\* and one was created for a type that has no definition
C25_Witness ==
    /\ \E i \in 1..Len(cobj) :
          /\ cobj[i].component_type = "progress"
          /\ cobj[i].props = [variant |-> "circular", label |-> "x", value |-> 50]
    /\ \E i \in 1..Len(cobj) :
          /\ cobj[i].component_type = "button"
          /\ cobj[i].props = EmptyDict
          /\ "button" \notin DOMAIN registry

----------------------------------------------------------------------------
(* C26 *)

\* C26: register(definition) makes get(definition.component_type) return that
\* definition and leaves get of every other type as it was; get of a type changes
\* in no other step, so it returns the definition registered last for the type,
\* the built-in one while none was registered; there is one definition per type.
C26_LastRegistrationWins ==
    [][/\ \A d \in Definitions :
            Register(d) =>
               /\ RegistryGet(registry', d.component_type) = [some |-> TRUE, val |-> d]
               /\ \A ty \in ComponentTypes \ {d.component_type} :
                     RegistryGet(registry', ty) = RegistryGet(registry, ty)
               /\ Cardinality(DOMAIN registry') =
                     Cardinality((DOMAIN registry) \cup {d.component_type})
       /\ \A ty \in ComponentTypes :
            RegistryGet(registry', ty) # RegistryGet(registry, ty) =>
                \E d \in Definitions : d.component_type = ty /\ Register(d)]_vars

\* a type that had a definition was registered again with another one, after a
\* type that had none was registered, and a third type still has its built-in
\* definition
C26_Witness ==
    /\ call.op = "register" /\ call.a = "progress" /\ call.b = "Labelled"
    /\ registry["progress"].name = "Labelled"
    /\ "button" \in DOMAIN registry
    /\ registry["metric"] = BuiltinDefs["metric"]

\* after construction get returns the built-in definitions
C26_BuiltinsFirst ==
    (call = NoCall) => \A ty \in ComponentTypes : RegistryGet(registry, ty) = RegistryGet(BuiltinDefs, ty)

----------------------------------------------------------------------------
(* C27 *)

\* C27: add_component with a position p, 0 <= p <= n for a view of n components,
\* puts the component at index p and keeps the existing components in their
\* order around it; without a position it appends; the add_component update it
\* records and pushes carries the component and the position it was called with.
C27_AddAtPosition ==
    [][\A c \in 1..Len(cobj), pos \in InsertPositions :
         AddComponent("t1", "v1", c, pos) =>
            LET old == vobj[views["v1"]].components
                new == vobj'[views'["v1"]].components
                n == Len(old)
                u == recorded'[Len(recorded')]
            IN /\ Len(new) = n + 1
               /\ (pos.some /\ 0 <= pos.val /\ pos.val <= n) =>
                     /\ new[pos.val + 1] = c
                     /\ \A i \in 1..n : new[IF i <= pos.val THEN i ELSE i + 1] = old[i]
               /\ ~pos.some => new = Append(old, c)
               /\ Len(recorded') = Len(recorded) + 1
               /\ u.action = "add_component" /\ u.view_id = "v1"
               /\ u.payload.component = c /\ u.payload.position = pos
               /\ task'["t1"].update = u]_vars

\* a third component was added at index 1, between the two the view held
C27_Witness ==
    /\ Len(recorded) = 3
    /\ recorded[3].payload.position = At(1)
    /\ LET comps == vobj[views["v1"]].components
       IN /\ Len(comps) = 3
          /\ comps[2] = recorded[3].payload.component
          /\ comps[1] # comps[2] /\ comps[3] # comps[2] /\ comps[1] # comps[3]

----------------------------------------------------------------------------
(* C28 *)

\* add_component of coroutine t is suspended in a subscriber's callback, having
\* saved version k of the only view object there has been, and add_component of
\* coroutine u on the same view has run meanwhile and saved version k + 1, the
\* stored version: two concurrently scheduled mutations, both saved, the version
\* grown by 2
BothSaved(t, u) ==
    /\ t # u /\ Len(vobj) = 1
    /\ task[t].pc = "in_callback" /\ task[t].op = "add_component"
    /\ task[u].pc \in {"in_callback", "done"} /\ task[u].op = "add_component"
    /\ task[u].found
    /\ task[u].view_id = task[t].view_id
    /\ views[task[t].view_id] # 0
    /\ task[u].update.version = task[t].update.version + 1
    /\ Stored(task[t].view_id).version = task[u].update.version

\* the component coroutine t added is in the stored view
ChangePresent(t) ==
    \E i \in 1..Len(Stored(task[t].view_id).components) :
        Stored(task[t].view_id).components[i] = task[t].update.payload.component

----------------------------------------------------------------------------
(* C30 *)

RECURSIVE LiveIds(_)
\* the keys of _clients in insertion order
LiveIds(es) ==
    IF es = <<>> THEN <<>>
    ELSE IF Head(es).live THEN <<Head(es).client_id>> \o LiveIds(Tail(es))
    ELSE LiveIds(Tail(es))

\* the sequence s without the element x
Without(s, x) == SelectSeq(s, LAMBDA y : y # x)

\* the deliveries of the push of coroutine t that have ended: counted, or raised
Completed(f) == f.recipients + Cardinality(f.failed)

\* C30: the keys of _clients are kept in the order in which the client ids were
\* connected (a connect of a connected id keeps its place, a disconnect removes
\* it); within one push the clients to which delivery is attempted are taken in
\* that order, each after the one visited before it; and a delivery begins only
\* when the one before it has ended: while push awaits a callback that delivery
\* is the only one not ended, and the next one begins in the step in which the
\* callback returns or raises.
C30_VisitsInInsertionOrder ==
    [][/\ call'.op = "connect" =>
            LiveIds(clients') = IF IndexOf(clients, call'.a) # 0 THEN LiveIds(clients)
                                ELSE Append(LiveIds(clients), call'.a)
       /\ call'.op = "disconnect" => LiveIds(clients') = Without(LiveIds(clients), call'.a)
       /\ \A t \in Tasks :
            LET new == NewAttempts(t)
                f == task'[t]
            IN /\ \A i \in 1..Len(new) :
                    /\ IndexOf(clients', new[i]) # 0
                    /\ i > 1 => IndexOf(clients', new[i - 1]) < IndexOf(clients', new[i])
               /\ (new # <<>> /\ task[t].pc = "in_callback") =>
                    /\ task[t].di_pos < IndexOf(clients', new[1])
                    /\ CallbackReturns(t) \/ CallbackRaises(t)
               /\ f.pc = "in_callback" =>
                    /\ Len(f.attempted) = Completed(f) + 1
                    /\ f.attempted[Len(f.attempted)] = f.cur
               /\ f.pc \in {"done", "in_broadcast"} => Len(f.attempted) = Completed(f)]_vars

\* a push has delivered to the queue of B, which was connected before A, and
\* awaits the callback of A
C30_Witness ==
    \E t \in Tasks :
        /\ task[t].pc = "in_callback" /\ task[t].stable
        /\ task[t].attempted = <<"B", "A">>
        /\ LiveIds(clients) = <<"B", "A">>
        /\ Len(queues["B"]) = 1

----------------------------------------------------------------------------
(* C29 *)

\* the updates that have reached client c: those put into its queue and those its
\* callback was called with
Reached(c) ==
    ToSet(queues[c]) \cup {task[u].update : u \in {x \in Tasks : c \in ToSet(task[x].attempted)}}

\* the update of the mutation of coroutine t has not reached the subscriber c,
\* and a later update of the same view has
Overtaken(t, c) ==
    /\ task[t].op \in Mutations /\ task[t].found
    /\ c \in SubscribersOf(task[t].view_id)
    /\ c \notin ToSet(task[t].attempted)
    /\ \E w \in Reached(c) :
          w.view_id = task[t].view_id /\ w.version > task[t].update.version

\* C29: a later update of a view reaches a subscriber before an earlier one only
\* while the push of the earlier one is suspended in the callback of a client
\* visited before that subscriber (so the earlier update arrives afterwards, out
\* of version order); the witness shows that this happens.
C29_OvertakenWhileSuspended ==
    \A t \in Tasks, c \in ClientIds :
        Overtaken(t, c) =>
            /\ task[t].pc = "in_callback"
            /\ IndexOf(clients, task[t].cur) # 0
            /\ IndexOf(clients, task[t].cur) < IndexOf(clients, c)

\* the queue of client B holds two updates of one view, the later version first
C29_Witness ==
    /\ Len(queues["B"]) = 2
    /\ queues["B"][1].view_id = queues["B"][2].view_id
    /\ queues["B"][1].version = queues["B"][2].version + 1
    /\ LiveIds(clients) = <<"A", "B">>

\* update 2 has reached B while push 1 is suspended in the callback of A
C29_Overtaking ==
    \E t \in Tasks : Overtaken(t, "B") /\ task[t].pc = "in_callback" /\ task[t].cur = "A"

----------------------------------------------------------------------------
(* C31 *)

\* the client in whose callback the push of frame f was last suspended
LastAttempted(f) == f.attempted[Len(f.attempted)]

\* the push of coroutine t was left by an exception
PushRaised(t) == task[t].op # "none" /\ task[t].pc = "raised"

\* C31 (as claimed): a push suspended in one client's callback is not failed by a
\* concurrent connect of a new client or disconnect of another client: while
\* the client it was suspended in stays connected, no push is left by an
\* exception.
C31_PushSurvivesConnect ==
    \A t \in Tasks :
        (PushRaised(t) /\ task[t].attempted # <<>>) =>
            IndexOf(clients, LastAttempted(task[t])) = 0

\* C31 (as the code runs): a push is left by an exception only if _clients was
\* changed while it was suspended, and then it has visited no further client
C31_RaisedOnlyWhenDisturbed ==
    \A t \in Tasks : PushRaised(t) => ~task[t].stable /\ task[t].attempted # <<>>

\* a push suspended in the callback of A, which is still connected, raised
\* RuntimeError after B connected
C31_RaisedAfterConnect ==
    \E t \in Tasks :
        /\ PushRaised(t) /\ task[t].attempted = <<"A">>
        /\ LiveIds(clients) = <<"A", "B">>
        /\ task[t].error = "RuntimeError: dictionary changed size during iteration"

----------------------------------------------------------------------------
(* C32 *)

\* the view id v is stored and has named one UIView object only: the view was
\* neither deleted nor created again
NeverReplaced(v) ==
    /\ views[v] # 0
    /\ Cardinality({r \in 1..Len(vobj) : vobj[r].id = v}) = 1

\* C32: the updates that add_component, update_component and remove_component
\* emit for one view id, the view being neither deleted nor re-created, are in
\* the history in strictly increasing version order (so no two of them carry the
\* same version), however the mutations interleave.
C32_HistoryVersionsIncrease ==
    \A i \in 1..Len(history), j \in 1..Len(history) :
        (/\ i < j
         /\ history[i].view_id = history[j].view_id
         /\ NeverReplaced(history[i].view_id)
         /\ history[i].action \in Mutations /\ history[j].action \in Mutations)
        => history[i].version < history[j].version

\* two mutations of v1 are in flight, both suspended in a callback, and their
\* updates are in the history, the second with the next version
C32_Witness ==
    /\ NeverReplaced("v1")
    /\ \A t \in Tasks : task[t].pc = "in_callback" /\ task[t].op \in Mutations
    /\ Len(history) = 2
    /\ history[1] = task["t1"].update /\ history[2] = task["t2"].update
    /\ history[2].version = history[1].version + 1

----------------------------------------------------------------------------
(* C33 *)

\* the view id v is stored before and after the step, and its stored version
\* does not decrease
VersionKept(v) ==
    (views[v] # 0 /\ views'[v] # 0) => vobj'[views'[v]].version >= vobj[views[v]].version

\* C33 (as claimed): for a view id that stays in the store, the stored version
\* never decreases, whatever operation runs, create_view with the same id
\* included.
C33_VersionNeverDecreases == [][\A v \in ViewIds : VersionKept(v)]_vars

\* C33 (as the code runs): every step other than a create_view with a stored id
\* keeps or raises the stored version
C33_OnlyCreateViewDecreases ==
    [][\A v \in ViewIds :
          ~(call'.op = "create_view" /\ call'.a = v /\ vobj' # vobj) => VersionKept(v)]_vars

\* create_view was called with the id of a stored view whose version was 3:
\* the view stored under the id is a new object at version 2
C33_Recreated ==
    /\ call.op = "create_view" /\ call.a = "v1"
    /\ Len(vobj) = 2 /\ vobj[1].id = "v1" /\ vobj[1].version = 3
    /\ views["v1"] = 2 /\ vobj[2].version = 2

----------------------------------------------------------------------------
(* C34 *)

\* in this step coroutine t runs add_component, update_component,
\* remove_component or push_view, and the operation does not return early
Emits(t) ==
    /\ task[t].pc \notin Suspended
    /\ task'[t].op \in ManagerOps /\ task'[t].found
    /\ task'[t] # task[t] \/ recorded' # recorded

\* no push starts in this step for a coroutine other than t
NoOtherPush(t) ==
    \A x \in Tasks \ {t} :
        /\ task'[x].pc \in InPush => (task[x].pc \in InPush /\ task'[x].update = task[x].update)
        /\ task[x].pc \notin InPush => NewAttempts(x) = <<>>

\* C34 (as claimed): the history grows by exactly one entry for each successful
\* add_component, update_component, remove_component and push_view, and by none
\* for any other operation.
C34_HistoryGrowsByOne ==
    [][call'.op # "record_update" =>
          IF \E t \in Tasks : Emits(t)
          THEN Len(history') = Len(history) + 1
          ELSE Len(history') = Len(history)]_vars

\* C34 (amended): each successful add_component, update_component,
\* remove_component and push_view on a stored view appends exactly one entry,
\* the update it hands to push, to the history, whose length grows by one below
\* the cap and stays at the cap (the oldest entry leaving) once it is reached;
\* the update is recorded in the step in which its push starts and no other
\* push starts for it; every other operation leaves the history as it is and
\* starts no push.
C34_OneEntryAppended ==
    [][call'.op # "record_update" =>
          IF \E t \in Tasks : Emits(t)
          THEN \E t \in Tasks :
                  /\ Emits(t)
                  /\ recorded' = Append(recorded, task'[t].update)
                  /\ history' = LastN(Append(history, task'[t].update), HISTORY_CAP)
                  /\ history'[Len(history')] = task'[t].update
                  /\ Len(history') = (IF Len(history) < HISTORY_CAP
                                      THEN Len(history) + 1 ELSE HISTORY_CAP)
                  /\ NoOtherPush(t)
          ELSE /\ UNCHANGED <<history, recorded>>
               /\ \A t \in Tasks :
                     /\ task'[t].pc \in InPush =>
                           (task[t].pc \in InPush /\ task'[t].update = task[t].update)
                     /\ task[t].pc \notin InPush => NewAttempts(t) = <<>>]_vars

\* a mutation was recorded in the full history: its update is the last entry,
\* the oldest entry is gone and the length is still the cap
C34_Witness ==
    \E t \in Tasks :
        /\ task[t].op \in Mutations /\ task[t].found /\ task[t].pc = "in_callback"
        /\ Len(recorded) = HISTORY_CAP + 1
        /\ Len(history) = HISTORY_CAP
        /\ history[HISTORY_CAP] = task[t].update
        /\ history[1] = recorded[2]

----------------------------------------------------------------------------
(* C35 *)

\* the updates queued for c before the step are still queued for it, in front
Retains(c) ==
    /\ Len(queues'[c]) >= Len(queues[c])
    /\ SubSeq(queues'[c], 1, Len(queues[c])) = queues[c]

\* the step is not a disconnect of c and no get_update takes an update of c
KeepsClient(c) ==
    /\ GettingFrom(c) = {}
    /\ ~(call'.op = "disconnect" /\ call'.a = c)

\* C35 (as claimed): an update queued for a client stays in its queue until
\* get_update retrieves it or the client is disconnected, a connect with the same
\* client id included, and a get_update waiting for the client keeps waiting on
\* the queue the pushes fill.
C35_QueuedStaysRetrievable ==
    [][\A c \in ClientIds :
          KeepsClient(c) =>
             /\ Retains(c)
             /\ \A t \in Tasks :
                   (task[t].pc = "in_get" /\ task[t].cur = c /\ task'[t].pc = "in_get")
                      => task'[t].orphan = task[t].orphan]_vars

\* C35 (as the code runs): short of a connect with the same client id, queued
\* updates stay queued and waiting get_update calls stay attached
C35_OnlyConnectDiscards ==
    [][\A c \in ClientIds :
          (KeepsClient(c) /\ ~(call'.op = "connect" /\ call'.a = c)) =>
             /\ Retains(c)
             /\ \A t \in Tasks :
                   (task[t].pc = "in_get" /\ task[t].cur = c /\ task'[t].pc = "in_get")
                      => task'[t].orphan = task[t].orphan]_vars

\* a get_update waits for a connected client whose queue holds an update: it
\* waits on the queue that the second connect replaced
C35_WaitsOnReplacedQueue ==
    \E t \in Tasks :
        /\ task[t].pc = "in_get" /\ task[t].orphan
        /\ QueueMode(task[t].cur)
        /\ queues[task[t].cur] # <<>>

----------------------------------------------------------------------------
(* C36 *)

\* a push for view id v has returned, no subscription having changed since it
\* started
PushedStable(t, v) ==
    /\ task[t].op = "push" /\ task[t].pc = "done" /\ task[t].stable
    /\ task[t].update.view_id = v

\* C36: a successful unsubscribe(c, v) removes v from the subscription set of c
\* and nothing else (the wildcard and the other view ids stay, as do the sets of
\* the other clients), and a push for v that runs after it, c not having
\* subscribed to v again, attempts delivery to c exactly when the set of c holds
\* the wildcard.
C36_UnsubscribeKeepsWildcard ==
    /\ [][\A c \in ClientIds, v \in Topics :
             (call'.op = "unsubscribe" /\ call'.a = c /\ call'.b = v /\ call'.ret = "True") =>
                /\ SubscriptionsOf(clients', c) = SubscriptionsOf(clients, c) \ {v}
                /\ \A d \in ClientIds \ {c} :
                      SubscriptionsOf(clients', d) = SubscriptionsOf(clients, d)]_vars
    /\ [](\A t \in Tasks, c \in ClientIds, v \in ViewIds :
             (PushedStable(t, v) /\ v \notin SubscriptionsOf(clients, c)) =>
                (c \in ToSet(task[t].attempted) <=> WILDCARD \in SubscriptionsOf(clients, c)))

\* A has unsubscribed from v1 and kept "*" and v2, B has unsubscribed from v1 and
\* from "*": a push for v1 that ran afterwards reached A and not B
C36_Witness ==
    \E t \in Tasks :
        /\ PushedStable(t, "v1")
        /\ SubscriptionsOf(clients, "A") = {"v2", WILDCARD}
        /\ SubscriptionsOf(clients, "B") = {"v2"}
        /\ task[t].attempted = <<"A">>

----------------------------------------------------------------------------
(* C37 *)

\* C37: disconnect(c) returns True exactly when c is connected; after it c is in
\* neither get_client nor list_clients, and the connections (subscriptions
\* included) and queues of the other clients are as before; and as long as c is
\* disconnected no push attempts a delivery to c or puts anything on a queue for
\* it, get_update(c) returns None at once, and disconnect(c) returns False.
C37_DisconnectRemovesClient ==
    [][\A c \in ClientIds :
          /\ (call'.op = "disconnect" /\ call'.a = c) =>
                /\ call'.ret = Bool(get_client(clients, c) # {})
                /\ get_client(clients', c) = {}
                /\ \A i \in 1..Len(list_clients(clients')) :
                      list_clients(clients')[i].client_id # c
                /\ \A d \in ClientIds \ {c} :
                      /\ get_client(clients', d) = get_client(clients, d)
                      /\ queues'[d] = queues[d]
          /\ get_client(clients, c) = {} =>
                /\ \A t \in Tasks : c \notin ToSet(NewAttempts(t))
                /\ queues'[c] = <<>>
                /\ \A t \in Tasks :
                      (Starts(t) /\ task'[t].op = "get_update" /\ task'[t].cur = c) =>
                         (task'[t].pc = "done" /\ ~task'[t].found)
                /\ (call'.op = "disconnect" /\ call'.a = c) => call'.ret = "False"]_vars

\* B was disconnected; a push for v1 that started afterwards is suspended in the
\* callback of A and has not attempted B, and get_update("B") has returned None
C37_Witness ==
    \E t \in Tasks, u \in Tasks :
        /\ get_client(clients, "B") = {} /\ get_client(clients, "A") # {}
        /\ task[t].op = "push" /\ task[t].pc = "in_callback" /\ task[t].stable
        /\ task[t].attempted = <<"A">>
        /\ task[u].op = "get_update" /\ task[u].cur = "B"
        /\ task[u].pc = "done" /\ ~task[u].found
        /\ queues["B"] = <<>>

----------------------------------------------------------------------------
(* C38 *)

\* C38: if every callback that is awaited ends and the event loop is fair, every
\* add_component, update_component, remove_component and push_view that has
\* started and is suspended in a push is eventually back at its caller, with its
\* result or with the exception that left push, whatever runs in between.
C38_MutationCompletes ==
    \A t \in Tasks :
        (task[t].op \in ManagerOps /\ task[t].pc \in InPush)
            ~> (task[t].op \in ManagerOps /\ task[t].pc \in {"done", "raised"})

\* a mutation has returned after its push was suspended in the callback of A
\* and in the broadcast callback, the subscriptions having changed meanwhile
C38_Witness ==
    \E t \in Tasks :
        /\ task[t].op \in Mutations /\ task[t].pc = "done"
        /\ task[t].attempted = <<"A">> /\ task[t].invoked = <<"g1">>
        /\ ~task[t].stable

----------------------------------------------------------------------------
(* C39 *)

\* C39: a push for view v attempts delivery to clients of
\* get_subscribers(v) only, as evaluated in the state in which it starts, and to
\* all of them when it returns without having been suspended; a push that has
\* returned with the connections and subscriptions unchanged since its start has
\* attempted exactly get_subscribers(v); and list_clients holds one connection
\* for each connected client id and nothing else.
C39_SubscribersArePushTargets ==
    /\ [][\A t \in Tasks :
             (Starts(t) /\ task'[t].op = "push") =>
                LET subs == get_subscribers(clients, task'[t].update.view_id)
                IN /\ ToSet(task'[t].attempted) \subseteq subs
                   /\ task'[t].pc = "done" => ToSet(task'[t].attempted) = subs]_vars
    /\ [](\A t \in Tasks :
             (task[t].op = "push" /\ task[t].pc = "done" /\ task[t].stable) =>
                ToSet(task[t].attempted) = get_subscribers(clients, task[t].update.view_id))
    /\ [](/\ {list_clients(clients)[i].client_id : i \in 1..Len(list_clients(clients))}
               = {c \in ClientIds : get_client(clients, c) # {}}
          /\ Len(list_clients(clients)) =
               Cardinality({c \in ClientIds : get_client(clients, c) # {}})
          /\ \A i \in 1..Len(list_clients(clients)) :
                get_client(clients, list_clients(clients)[i].client_id)
                   = {list_clients(clients)[i]})

\* A is subscribed to v1 and B to "*": get_subscribers("v1") is both,
\* get_subscribers("v2") is B, and a push for v1 has attempted both after
\* suspending in the callback of A
C39_Witness ==
    \E t \in Tasks :
        /\ task[t].op = "push" /\ task[t].pc = "done" /\ task[t].stable
        /\ task[t].update.view_id = "v1"
        /\ get_subscribers(clients, "v1") = {"A", "B"}
        /\ get_subscribers(clients, "v2") = {"B"}
        /\ task[t].attempted = <<"A", "B">>
        /\ Len(list_clients(clients)) = 2
        /\ list_clients(clients)[1].callback

----------------------------------------------------------------------------
(* C40 *)

\* the component that update_component(v, cid) changes: the first of the view
\* with that id
Target(v, cid) == FindComponent(vobj[views[v]].components, cid)

\* C40: create_component and update_component leave every registered definition
\* (its default_props and default_styles included) as it is; create_component
\* leaves the components created before as they are, and update_component changes
\* the one component it finds and no other, those created from the same
\* definition included.
C40_DefaultsNeverChange ==
    [][/\ call'.op = "create_component" =>
             /\ registry' = registry
             /\ \A c \in 1..Len(cobj) : cobj'[c] = cobj[c]
       /\ \A t \in Tasks :
             (Starts(t) /\ task'[t].op = "update_component" /\ task'[t].found) =>
                /\ registry' = registry
                /\ \A c \in 1..Len(cobj) :
                      c # Target(task'[t].view_id, task'[t].component_id) => cobj'[c] = cobj[c]]_vars

\* two components were created from the definition of progress; the one in the
\* view was updated to variant "dial", the other one and the definition still
\* have the default "linear"
C40_Witness ==
    \E t \in Tasks :
        /\ task[t].op = "update_component" /\ task[t].found
        /\ Len(cobj) = 2
        /\ cobj[1].component_type = "progress" /\ cobj[2].component_type = "progress"
        /\ cobj[1].props = [variant |-> "dial"]
        /\ cobj[2].props = [variant |-> "linear"]
        /\ registry["progress"].default_props = [variant |-> "linear"]

====
